---- MODULE Spec2Model ----
(***************************************************************************)
(* Model of the CIBIL multi-page aggregation pipeline                      *)
(* (backend/cibil_multi_page_aggregator.py) and of the page text           *)
(* normalizer (backend/cibil_pdf_processor.py).                            *)
(*                                                                         *)
(* Page text in the aggregation pipeline is a sequence of phrases.  Every  *)
(* phrase stands for one literal piece of report text, followed by one     *)
(* space; the phrase "NL" is the line break.  The literals are             *)
(*   ACC_A    "Account No: AB12345678;"    ACC_B  "Account No: CD12345678;" *)
(*   BANK_X   "Bank: ABC BANK LTD;"        PAD    99 times "-"              *)
(*   DETAILS  "Account Details;"           PAYHIST "Payment History;"       *)
(*   SCORE742 "CIBIL Score: 742;"          SCORE999 "Score: 999;"           *)
(*   SCORE815 "815 credit;"                TOTAL3  "Total Accounts: 3;"     *)
(*   LOANT    "Loan Type: personal;"       LOANW   "home loan;"             *)
(*   STATUS   "Status: active;"            OPENED  "Opened: 11/12/1999;"    *)
(*   LASTPAID "Last Payment: 21/11/1998;"  CREDITACC "Credit Accounts;"     *)
(*   PAGE2    "Page 2;"                                                     *)
(*   HIST25   24 times "30 " and then "60": 25 delinquency tokens           *)
(*   SINCE    "Since 21/12/1997;"          ENQSEC "Credit Enquiries;"       *)
(*   ENQ5     "Total Enquiries: 5;"        ENQ7   "7 enquiries in;"         *)
(*   TOTAL2   "Total Accounts: 2;"         CLOSED "Status: closed;"         *)
(*   SETTLED  "Status: settled;"                                            *)
(*   ACC_FULL "Account No: EF12345678; Bank: ABC BANK LTD; Loan Type:       *)
(*            personal;"                                                    *)
(*   "0" "30" "60" "90" "120" "150" "180" "XXX" "STD" "SMA" "SUB" "DBT"     *)
(*   "LSS"   the delinquency tokens, written as they are.                   *)
(* Every literal ends in ";" or is a single word, so no regular expression *)
(* of the program matches across two phrases: a search of a pattern in a   *)
(* text is the leftmost phrase the pattern matches in.  The operators      *)
(* below give, per phrase, what each pattern of the program matches in its *)
(* literal.  Positions are character offsets, computed from the lengths of *)
(* the literals, so that the 100 and 500 character rules of the program    *)
(* keep their values.                                                      *)
(*                                                                         *)
(* The normalizer works on characters: its text is a sequence of one       *)
(* character strings.                                                      *)
(***************************************************************************)
EXTENDS Integers, Sequences, FiniteSets, TLC

MaxPages == 2
MaxToks == 4

None == "None"
NoneInt == 0 - 1

Min(S) == CHOOSE x \in S : \A y \in S : x <= y
Max(S) == CHOOSE x \in S : \A y \in S : x >= y
Min2(a, b) == IF a <= b THEN a ELSE b
Max2(a, b) == IF a >= b THEN a ELSE b

PaymentTokens ==
  {"0", "30", "60", "90", "120", "150", "180", "XXX", "STD", "SMA", "SUB", "DBT", "LSS"}

(***************************************************************************)
(* Phrases: lengths and offsets                                            *)
(***************************************************************************)
\* len() of the literal of a phrase
LitLen(tok) ==
  CASE tok = "NL" -> 1
    [] tok \in {"ACC_A", "ACC_B"} -> 23
    [] tok = "BANK_X" -> 19
    [] tok \in {"DETAILS", "PAYHIST", "CREDITACC"} -> 16
    [] tok = "PAGE2" -> 7
    [] tok = "HIST25" -> 74
    [] tok = "PAD" -> 99
    [] tok = "ACC_FULL" -> 64
    [] tok \in {"SCORE742", "SINCE", "ENQSEC"} -> 17
    [] tok = "ENQ5" -> 19
    [] tok = "ENQ7" -> 15
    [] tok \in {"SCORE999", "SCORE815"} -> 11
    [] tok \in {"TOTAL3", "TOTAL2"} -> 18
    [] tok = "LOANT" -> 20
    [] tok = "LOANW" -> 10
    [] tok \in {"STATUS", "CLOSED"} -> 15
    [] tok = "SETTLED" -> 16
    [] tok = "OPENED" -> 19
    [] tok = "LASTPAID" -> 25
    [] tok = "0" -> 1
    [] tok \in {"30", "60", "90"} -> 2
    [] OTHER -> 3

\* characters a phrase takes in the text: the literal and its space
Width(tok) == IF tok = "NL" THEN 1 ELSE LitLen(tok) + 1

\* offset of the first character of phrase i of the text
RECURSIVE Off(_, _)
Off(text, i) == IF i <= 1 THEN 0 ELSE Off(text, i - 1) + Width(text[i - 1])

\* len(text)
TextLen(text) == Off(text, Len(text) + 1)

\* len(literal[:o].rstrip()) for a cut at offset o of the literal
RStripLen(tok, o) ==
  IF \/ tok \in {"DETAILS", "PAYHIST"} /\ o = 8
     \/ tok = "ENQSEC" /\ o = 7
     \/ tok = "ENQ5" /\ o = 6
     \/ tok = "ENQ7" /\ o = 2
  THEN o - 1 ELSE o

\* the range of text[lo:hi].strip(), lo being the first character of a phrase
Strip(text, lo, hi) ==
  LET inside == {j \in DOMAIN text : text[j] # "NL" /\ Off(text, j) >= lo
                                     /\ Off(text, j) < hi}
      ends == {Off(text, j) + RStripLen(text[j], Min2(LitLen(text[j]), hi - Off(text, j)))
                 : j \in inside}
  IN IF inside = {} THEN [lo |-> lo, hi |-> lo]
     ELSE [lo |-> Min({Off(text, j) : j \in inside}), hi |-> Max(ends)]

\* the phrases that lie whole in text[lo:hi]
PhrasesIn(text, lo, hi) ==
  LET inside == {j \in DOMAIN text : Off(text, j) >= lo
                                     /\ Off(text, j) + LitLen(text[j]) <= hi}
  IN IF inside = {} THEN << >> ELSE SubSeq(text, Min(inside), Max(inside))

(***************************************************************************)
(* Section identification                                                  *)
(***************************************************************************)
\* the keys of SECTION_PATTERNS in their order
SectionTypes == <<"summary", "account_details", "enquiry_summary", "payment_history">>

\* the patterns of SECTION_PATTERNS[type] (numbered from 1) that match in
\* the literal of the phrase; every match starts at the literal's start
SECTION_PATTERNS(tok, type) ==
  CASE tok = "DETAILS" /\ type = "account_details" -> {1}
    [] tok = "CREDITACC" /\ type = "account_details" -> {2}
    [] tok = "ENQSEC" /\ type = "enquiry_summary" -> {2}
    [] tok = "PAYHIST" /\ type = "payment_history" -> {1}
    [] OTHER -> {}

\* offsets in the literal where section_end_patterns[e] matches
section_end_patterns(tok, e) ==
  CASE e = 1 /\ tok \in {"DETAILS", "PAYHIST"} -> {8}
    [] e = 1 /\ tok = "ENQSEC" -> {7}
    [] e = 1 /\ tok = "ENQ5" -> {6}
    [] e = 1 /\ tok = "ENQ7" -> {2}
    [] e = 2 /\ tok = "PAGE2" -> {0}
    [] OTHER -> {}

\* ExtractSectionContent that looks for the section end from the start of
\* the match on
ExtractSectionContentNoOffset(text, type, k) ==
  LET hits == {i \in DOMAIN text : k \in SECTION_PATTERNS(text[i], type)}
  IN IF hits = {} THEN [lo |-> 0, hi |-> 0]
     ELSE
       LET start_pos == Off(text, Min(hits))
           EndsOf(e) == {p \in UNION {{Off(text, j) + o : o \in section_end_patterns(text[j], e)}
                                         : j \in DOMAIN text} : p >= start_pos}
           end_pos == IF EndsOf(1) # {} THEN Min(EndsOf(1))
                      ELSE IF EndsOf(2) # {} THEN Min(EndsOf(2))
                      ELSE TextLen(text)
       IN Strip(text, start_pos, end_pos)

\* _extract_section_content: the range of the content in the page text
ExtractSectionContent(text, type, k) ==
  LET hits == {i \in DOMAIN text : k \in SECTION_PATTERNS(text[i], type)}
  IN IF hits = {} THEN [lo |-> 0, hi |-> 0]
     ELSE
       LET start_pos == Off(text, Min(hits))
           EndsOf(e) == {p \in UNION {{Off(text, j) + o : o \in section_end_patterns(text[j], e)}
                                         : j \in DOMAIN text} : p >= start_pos + 100}
           end_pos == IF EndsOf(1) # {} THEN Min(EndsOf(1))
                      ELSE IF EndsOf(2) # {} THEN Min(EndsOf(2))
                      ELSE TextLen(text)
       IN Strip(text, start_pos, end_pos)

\* the keywords of section_keywords that occur in the literal of a phrase
Keywords(tok) ==
  CASE tok \in {"ACC_A", "ACC_B", "DETAILS", "CREDITACC"} -> {"account"}
    [] tok = "BANK_X" -> {"bank"}
    [] tok = "ACC_FULL" -> {"account", "bank", "loan"}
    [] tok = "PAYHIST" -> {"payment", "history"}
    [] tok \in {"SCORE742", "SCORE999"} -> {"score"}
    [] tok \in {"TOTAL3", "TOTAL2"} -> {"total", "account"}
    [] tok = "ENQ5" -> {"total"}
    [] tok \in {"LOANT", "LOANW"} -> {"loan"}
    [] tok = "LASTPAID" -> {"last", "payment"}
    [] OTHER -> {}

\* the keywords in the part of a section marker before its end keyword
PrefixKeywords(tok) ==
  CASE tok = "DETAILS" -> {"account"}
    [] tok = "PAYHIST" -> {"payment"}
    [] tok = "ENQ5" -> {"total"}
    [] OTHER -> {}

section_keywords(type) ==
  CASE type = "summary" -> {"score", "total", "summary", "overview"}
    [] type = "account_details" -> {"account", "loan", "bank", "amount"}
    [] type = "enquiry_summary" -> {"enquiry", "inquiry", "recent", "last"}
    [] type = "payment_history" -> {"payment", "history", "months", "delay"}
    [] OTHER -> {}

\* _calculate_section_confidence, in tenths
CalculateSectionConfidence(text, content, type) ==
  IF content.hi = content.lo THEN 0
  ELSE
    LET length == content.hi - content.lo
        whole == {j \in DOMAIN text : Off(text, j) >= content.lo
                                      /\ Off(text, j) + LitLen(text[j]) <= content.hi}
        cut == {j \in DOMAIN text : Off(text, j) >= content.lo
                                    /\ Off(text, j) < content.hi
                                    /\ Off(text, j) + LitLen(text[j]) > content.hi}
        found == UNION ({Keywords(text[j]) : j \in whole}
                          \cup {PrefixKeywords(text[j]) : j \in cut})
        keyword_count == Cardinality(found \cap section_keywords(type))
        bylen == IF length > 200 THEN 2 ELSE IF length > 100 THEN 1 ELSE 0
    IN Min2(3 + bylen + Min2(keyword_count, 4), 10)

\* SectionsOfPage with the last pattern of the list that matches
RECURSIVE SectionsOfPageLastPattern(_, _, _)
SectionsOfPageLastPattern(text, page_number, ti) ==
  IF ti > Len(SectionTypes) THEN << >>
  ELSE
    LET type == SectionTypes[ti]
        matching == {k \in 1..3 : \E i \in DOMAIN text : k \in SECTION_PATTERNS(text[i], type)}
        rest == SectionsOfPageLastPattern(text, page_number, ti + 1)
    IN IF matching = {} THEN rest
       ELSE
         LET content == ExtractSectionContent(text, type, Max(matching))
         IN <<[section_type |-> type, page_number |-> page_number, content |-> content,
               confidence |-> CalculateSectionConfidence(text, content, type)]>> \o rest

\* the sections of one page, from section type number ti on
RECURSIVE SectionsOfPage(_, _, _)
SectionsOfPage(text, page_number, ti) ==
  IF ti > Len(SectionTypes) THEN << >>
  ELSE
    LET type == SectionTypes[ti]
        matching == {k \in 1..3 : \E i \in DOMAIN text : k \in SECTION_PATTERNS(text[i], type)}
        rest == SectionsOfPage(text, page_number, ti + 1)
    IN IF matching = {} THEN rest
       ELSE
         LET content == ExtractSectionContent(text, type, Min(matching))
         IN <<[section_type |-> type, page_number |-> page_number, content |-> content,
               confidence |-> CalculateSectionConfidence(text, content, type)]>> \o rest

\* an element of pages_data that is a mapping; [not_mapping |-> v] stands
\* for an element v that is none, such as a string or None
IsMapping(page) == "not_mapping" \notin DOMAIN page

\* page.get('text', '') is a string; [page_number |-> n, text_not_str |-> v]
\* stands for a mapping whose 'text' is a value that is none, such as None
\* or a number
TextIsString(page) == "text_not_str" \notin DOMAIN page

\* _identify_sections raises: page_data.get of an element that is no
\* mapping (AttributeError), re.search in a text that is no string (TypeError)
IdentifyRaises(pages) ==
  \E p \in DOMAIN pages : ~IsMapping(pages[p]) \/ ~TextIsString(pages[p])

\* IdentifySectionsFrom that stops at the first page without text
RECURSIVE IdentifySectionsStopAtEmpty(_, _)
IdentifySectionsStopAtEmpty(pages, p) ==
  IF p > Len(pages) \/ pages[p].text = << >> THEN << >>
  ELSE SectionsOfPage(pages[p].text, p, 1) \o IdentifySectionsStopAtEmpty(pages, p + 1)

\* IdentifySectionsFrom that takes the page number from the page record
RECURSIVE IdentifySectionsFromRecordNumber(_, _)
IdentifySectionsFromRecordNumber(pages, p) ==
  IF p > Len(pages) THEN << >>
  ELSE SectionsOfPage(pages[p].text, pages[p].page_number, 1)
         \o IdentifySectionsFromRecordNumber(pages, p + 1)

\* _identify_sections, from page number p on
RECURSIVE IdentifySectionsFrom(_, _)
IdentifySectionsFrom(pages, p) ==
  IF p > Len(pages) THEN << >>
  ELSE SectionsOfPage(pages[p].text, p, 1) \o IdentifySectionsFrom(pages, p + 1)

IdentifySections(pages) == IdentifySectionsFrom(pages, 1)

(***************************************************************************)
(* Account blocks and fields                                               *)
(***************************************************************************)
\* text.split('\n')
RECURSIVE SplitLines(_)
SplitLines(toks) ==
  LET nl == {i \in DOMAIN toks : toks[i] = "NL"}
  IN IF nl = {} THEN <<toks>>
     ELSE <<SubSeq(toks, 1, Min(nl) - 1)>>
            \o SplitLines(SubSeq(toks, Min(nl) + 1, Len(toks)))

\* a line matches one of the separators (account/loan no, member name, bank name)
IsSeparatorLine(line) == \E i \in DOMAIN line : line[i] \in {"ACC_A", "ACC_B", "ACC_FULL"}

\* bool(s.strip())
HasText(toks) == \E i \in DOMAIN toks : toks[i] # "NL"

\* s.strip() of a text that has a phrase
StripToks(toks) ==
  LET words == {i \in DOMAIN toks : toks[i] # "NL"}
  IN SubSeq(toks, Min(words), Max(words))

\* BlockLoop that starts the new block without the separator line
RECURSIVE BlockLoopDropsSeparator(_, _, _, _)
BlockLoopDropsSeparator(lines, i, blocks_so_far, current_block) ==
  IF i > Len(lines)
  THEN IF HasText(current_block) THEN Append(blocks_so_far, StripToks(current_block))
       ELSE blocks_so_far
  ELSE IF IsSeparatorLine(lines[i]) /\ HasText(current_block)
       THEN BlockLoopDropsSeparator(lines, i + 1,
                                    Append(blocks_so_far, StripToks(current_block)), << >>)
       ELSE BlockLoopDropsSeparator(lines, i + 1, blocks_so_far,
                                    current_block \o <<"NL">> \o lines[i])

\* the loop over the lines of _split_into_account_blocks and the last flush
RECURSIVE BlockLoop(_, _, _, _)
BlockLoop(lines, i, blocks_so_far, current_block) ==
  IF i > Len(lines)
  THEN IF HasText(current_block) THEN Append(blocks_so_far, StripToks(current_block))
       ELSE blocks_so_far
  ELSE IF IsSeparatorLine(lines[i]) /\ HasText(current_block)
       THEN BlockLoop(lines, i + 1, Append(blocks_so_far, StripToks(current_block)), lines[i])
       ELSE BlockLoop(lines, i + 1, blocks_so_far, current_block \o <<"NL">> \o lines[i])

\* _split_into_account_blocks
SplitIntoAccountBlocks(toks) ==
  LET blocks == BlockLoop(SplitLines(toks), 1, << >>, << >>)
  IN IF Len(blocks) <= 1 THEN <<toks>> ELSE blocks

\* the keys of ACCOUNT_PATTERNS in their order
AccountFields == <<"account_number", "bank_name", "loan_type", "sanctioned_amount",
                   "current_balance", "overdue_amount", "account_status">>

\* the patterns of ACCOUNT_PATTERNS[field] (numbered from 1) that match in
\* the literal of the phrase
ACCOUNT_PATTERNS(tok, field) ==
  CASE tok \in {"ACC_A", "ACC_B", "ACC_FULL"} /\ field = "account_number" -> {1}
    [] tok \in {"BANK_X", "ACC_FULL"} /\ field = "bank_name" -> {1}
    [] tok \in {"LOANT", "ACC_FULL"} /\ field = "loan_type" -> {1}
    [] tok = "LOANW" /\ field = "loan_type" -> {2}
    [] tok \in {"STATUS", "CLOSED", "SETTLED"} /\ field = "account_status" -> {1}
    [] OTHER -> {}

\* the pattern has a capture group 1 (the second loan_type pattern has none)
HasGroup1(field, k) == ~(field = "loan_type" /\ k = 2)

\* match.group(1).strip() of a pattern of ACCOUNT_PATTERNS in the phrase
Group1(tok, field) ==
  CASE tok = "ACC_A" -> "AB12345678"
    [] tok = "ACC_B" -> "CD12345678"
    [] tok = "ACC_FULL" /\ field = "account_number" -> "EF12345678"
    [] tok \in {"BANK_X", "ACC_FULL"} /\ field = "bank_name" -> "ABC BANK LTD"
    [] tok \in {"LOANT", "ACC_FULL"} /\ field = "loan_type" -> "personal"
    [] tok = "STATUS" -> "active"
    [] tok = "CLOSED" -> "closed"
    [] tok = "SETTLED" -> "settled"
    [] OTHER -> ""

\* the loop over the patterns of one field in _extract_accounts_from_text:
\* the first pattern that matches in the block gives the value; reading
\* group 1 of a pattern without groups raises IndexError
ExtractField(block, field) ==
  LET matching == {k \in 1..3 : \E i \in DOMAIN block : k \in ACCOUNT_PATTERNS(block[i], field)}
  IN IF matching = {} THEN [found |-> FALSE, raised |-> FALSE, value |-> ""]
     ELSE
       LET k == Min(matching)
           i == Min({j \in DOMAIN block : k \in ACCOUNT_PATTERNS(block[j], field)})
       IN IF ~HasGroup1(field, k) THEN [found |-> FALSE, raised |-> TRUE, value |-> ""]
          ELSE [found |-> TRUE, raised |-> FALSE, value |-> Group1(block[i], field)]

\* a field read raises in the block
BlockRaises(block) ==
  \E f \in DOMAIN AccountFields : ExtractField(block, AccountFields[f]).raised

\* account_data.get(field, default)
FieldOr(block, field, default) ==
  LET r == ExtractField(block, field) IN IF r.found THEN r.value ELSE default

\* the AccountInfo built from a block
AccountInfo(block, page_number) ==
  [account_number |-> FieldOr(block, "account_number", ""),
   bank_name |-> FieldOr(block, "bank_name", ""),
   loan_type |-> FieldOr(block, "loan_type", ""),
   sanctioned_amount |-> FieldOr(block, "sanctioned_amount", None),
   current_balance |-> FieldOr(block, "current_balance", None),
   overdue_amount |-> FieldOr(block, "overdue_amount", None),
   account_status |-> FieldOr(block, "account_status", None),
   opening_date |-> None,
   last_payment_date |-> None,
   payment_history |-> << >>,
   page_number |-> page_number]

\* the loop over the blocks of _extract_accounts_from_text
RECURSIVE AccountsOfBlocks(_, _, _)
AccountsOfBlocks(blocks, b, page_number) ==
  IF b > Len(blocks) THEN << >>
  ELSE
    LET block == blocks[b]
        rest == AccountsOfBlocks(blocks, b + 1, page_number)
    IN IF ExtractField(block, "account_number").found \/ ExtractField(block, "bank_name").found
       THEN <<AccountInfo(block, page_number)>> \o rest
       ELSE rest

\* _extract_accounts_from_text: the accounts, or raised
ExtractAccountsFromText(toks, page_number) ==
  LET blocks == SplitIntoAccountBlocks(toks)
  IN IF \E b \in DOMAIN blocks : BlockRaises(blocks[b])
     THEN [raised |-> TRUE, accounts |-> << >>]
     ELSE [raised |-> FALSE, accounts |-> AccountsOfBlocks(blocks, 1, page_number)]

\* _extract_accounts_from_section.  The content ends at the end of the page
\* text or before an end keyword inside a section marker; the cut part of
\* the marker ("Account", "Payment") matches no account pattern.
ExtractAccountsFromSection(pages, section) ==
  ExtractAccountsFromText(
    PhrasesIn(pages[section.page_number].text, section.content.lo, section.content.hi),
    section.page_number)

(***************************************************************************)
(* Enrichment: payment history and dates near an account number            *)
(***************************************************************************)
\* the account number written in the literal of a phrase ("" when none);
\* it starts at offset 12 of the literal and is 10 characters long
NumberIn(tok) ==
  CASE tok = "ACC_A" -> "AB12345678"
    [] tok = "ACC_B" -> "CD12345678"
    [] tok = "ACC_FULL" -> "EF12345678"
    [] OTHER -> ""

NumberOffset == 12
NumberLen == 10

\* _find_text_around_account on text[lo:hi]: the range of the window
FindTextAroundAccount(text, lo, hi, account_number) ==
  LET at == {Off(text, j) + NumberOffset : j \in {i \in DOMAIN text : NumberIn(text[i]) = account_number}}
      within == {p \in at : p >= lo /\ p + NumberLen <= hi}
  IN IF account_number = "" \/ within = {} THEN [found |-> FALSE, lo |-> lo, hi |-> lo]
     ELSE
       LET account_pos == Min(within)
       IN [found |-> TRUE,
           lo |-> Max2(lo, account_pos - 500),
           hi |-> Min2(hi, account_pos + NumberLen + 500)]

\* re.findall of the payment pattern in literal[a:b] of a phrase: the token
\* itself, or the final 0 of a token when the text starts right at it
PaymentsInPhrase(tok, a, b) ==
  IF tok = "HIST25"
  THEN LET at(i) == 3 * (i - 1)
           found == [i \in 1..25 |->
                       IF a <= at(i) /\ at(i) + 2 <= b THEN (IF i = 25 THEN "60" ELSE "30")
                       ELSE IF a = at(i) + 1 /\ at(i) + 2 <= b THEN "0"
                       ELSE ""]
       IN SelectSeq(found, LAMBDA token : token # "")
  ELSE IF tok \in PaymentTokens /\ a = 0 /\ b = LitLen(tok) THEN <<tok>>
  ELSE IF tok \in {"30", "60", "90", "120", "150", "180"}
          /\ a = LitLen(tok) - 1 /\ b = LitLen(tok) THEN <<"0">>
  ELSE << >>

\* re.findall of the payment pattern in text[lo:hi], from phrase j on
RECURSIVE FindPayments(_, _, _, _)
FindPayments(text, lo, hi, j) ==
  IF j > Len(text) THEN << >>
  ELSE
    LET a == Max2(0, lo - Off(text, j))
        b == Min2(LitLen(text[j]), hi - Off(text, j))
    IN (IF a < b THEN PaymentsInPhrase(text[j], a, b) ELSE << >>)
         \o FindPayments(text, lo, hi, j + 1)

\* ExtractPaymentHistoryForAccount without the limit of 24
ExtractPaymentHistoryForAccountUnlimited(text, content, account_number) ==
  LET account_section == FindTextAroundAccount(text, content.lo, content.hi, account_number)
  IN IF ~account_section.found THEN << >>
     ELSE FindPayments(text, account_section.lo, account_section.hi, 1)

\* _extract_payment_history_for_account on the content of a section
ExtractPaymentHistoryForAccount(text, content, account_number) ==
  LET account_section == FindTextAroundAccount(text, content.lo, content.hi, account_number)
  IN IF ~account_section.found THEN << >>
     ELSE
       LET payment_history == FindPayments(text, account_section.lo, account_section.hi, 1)
       IN SubSeq(payment_history, 1, Min2(24, Len(payment_history)))

\* the date captured by the opening (which = 1) or last payment (which = 2)
\* patterns in literal[a:b] of a phrase, None when no pattern matches; a
\* text that ends inside the year keeps the digits it has, two at least
DateInPhrase(tok, a, b, which) ==
  CASE which = 1 /\ tok = "OPENED" /\ a = 0 /\ b >= 16 ->
         (IF b = 16 THEN "11/12/19" ELSE IF b = 17 THEN "11/12/199" ELSE "11/12/1999")
    [] which = 2 /\ tok = "LASTPAID" /\ a = 0 /\ b >= 22 ->
         (IF b = 22 THEN "21/11/19" ELSE IF b = 23 THEN "21/11/199" ELSE "21/11/1998")
    [] which = 1 /\ tok = "SINCE" /\ a = 0 /\ b >= 14 ->
         (IF b = 14 THEN "21/12/19" ELSE IF b = 15 THEN "21/12/199" ELSE "21/12/1997")
    [] OTHER -> None

\* the pattern of opening_patterns (which = 1) or payment_patterns
\* (which = 2), numbered from 1, that matches in the literal of a phrase
DatePattern(tok, which) == IF tok = "SINCE" THEN 2 ELSE 1

\* FindDate with the leftmost match of any pattern of the field
FindDateLeftmost(text, lo, hi, which) ==
  LET In(j) == DateInPhrase(text[j], Max2(0, lo - Off(text, j)),
                            Min2(LitLen(text[j]), hi - Off(text, j)), which)
      hits == {j \in DOMAIN text : In(j) # None}
  IN IF hits = {} THEN None ELSE In(Min(hits))

\* the loop over the date patterns of one field with re.search in
\* text[lo:hi]: the first pattern that matches gives the date
FindDate(text, lo, hi, which) ==
  LET In(j) == DateInPhrase(text[j], Max2(0, lo - Off(text, j)),
                            Min2(LitLen(text[j]), hi - Off(text, j)), which)
      hits(k) == {j \in DOMAIN text : In(j) # None /\ DatePattern(text[j], which) = k}
  IN IF hits(1) # {} THEN In(Min(hits(1)))
     ELSE IF hits(2) # {} THEN In(Min(hits(2)))
     ELSE None

\* _extract_dates_near_account on a page text
ExtractDatesNearAccount(text, account_number) ==
  LET account_section == FindTextAroundAccount(text, 0, TextLen(text), account_number)
  IN IF ~account_section.found THEN [opening_date |-> None, last_payment_date |-> None]
     ELSE [opening_date |-> FindDate(text, account_section.lo, account_section.hi, 1),
           last_payment_date |-> FindDate(text, account_section.lo, account_section.hi, 2)]

\* PaymentHistoryFor that stops at the first payment section that holds the
\* account number
PaymentHistoryForFirstHolding(pages, payment_sections, account) ==
  LET Holds(s) == FindTextAroundAccount(pages[payment_sections[s].page_number].text,
                                        payment_sections[s].content.lo,
                                        payment_sections[s].content.hi,
                                        account.account_number).found
      holding == {s \in DOMAIN payment_sections : Holds(s)}
  IN IF holding = {} THEN account.payment_history
     ELSE ExtractPaymentHistoryForAccount(pages[payment_sections[Min(holding)].page_number].text,
                                          payment_sections[Min(holding)].content,
                                          account.account_number)

\* the payment history an account gets: that of the first payment section
\* that gives a non-empty one
PaymentHistoryFor(pages, payment_sections, account) ==
  LET Data(s) == ExtractPaymentHistoryForAccount(pages[payment_sections[s].page_number].text,
                                                 payment_sections[s].content,
                                                 account.account_number)
      giving == {s \in DOMAIN payment_sections : Data(s) # << >>}
  IN IF giving = {} THEN account.payment_history ELSE Data(Min(giving))

\* EnhanceAccount that also sets account_status when it finds a date
EnhanceAccountSetsStatus(pages, payment_sections, account) ==
  LET holding == {p \in DOMAIN pages : \E j \in DOMAIN pages[p].text :
                                          NumberIn(pages[p].text[j]) = account.account_number}
      dates == IF holding = {} THEN [opening_date |-> None, last_payment_date |-> None]
               ELSE ExtractDatesNearAccount(pages[Min(holding)].text, account.account_number)
      any == dates.opening_date # None \/ dates.last_payment_date # None
  IN [account EXCEPT !.payment_history = PaymentHistoryFor(pages, payment_sections, account),
                     !.opening_date = IF any THEN dates.opening_date ELSE @,
                     !.last_payment_date = IF any THEN dates.last_payment_date ELSE @,
                     !.account_status = IF any THEN "active" ELSE @]

\* one account after the loop body of _enhance_accounts_with_additional_data
EnhanceAccount(pages, payment_sections, account) ==
  LET with == {p \in DOMAIN pages : \E j \in DOMAIN pages[p].text :
                                       /\ account.account_number # ""
                                       /\ NumberIn(pages[p].text[j]) = account.account_number}
      holding == IF account.account_number = "" THEN DOMAIN pages ELSE with
      dates == IF holding = {} THEN [opening_date |-> None, last_payment_date |-> None]
               ELSE ExtractDatesNearAccount(pages[Min(holding)].text, account.account_number)
      any == dates.opening_date # None \/ dates.last_payment_date # None
  IN [account EXCEPT !.payment_history = PaymentHistoryFor(pages, payment_sections, account),
                     !.opening_date = IF any THEN dates.opening_date ELSE @,
                     !.last_payment_date = IF any THEN dates.last_payment_date ELSE @]

\* _enhance_accounts_with_additional_data
EnhanceAccountsWithAdditionalData(accounts, sections, pages) ==
  LET payment_sections == SelectSeq(sections, LAMBDA s : s.section_type = "payment_history")
  IN [i \in DOMAIN accounts |-> EnhanceAccount(pages, payment_sections, accounts[i])]

(***************************************************************************)
(* Account consolidation                                                   *)
(***************************************************************************)
\* AppendUnseen without the test on seen_accounts
RECURSIVE AppendUnseenNoSeenTest(_, _, _)
AppendUnseenNoSeenTest(state, found, i) ==
  IF i > Len(found) THEN state
  ELSE
    LET account == found[i]
    IN IF account.account_number # ""
       THEN AppendUnseenNoSeenTest(
              [accounts |-> Append(state.accounts, account),
               seen_accounts |-> state.seen_accounts \cup {account.account_number}],
              found, i + 1)
       ELSE AppendUnseenNoSeenTest(state, found, i + 1)

\* AppendUnseen with a later duplicate taking the place of the record kept
RECURSIVE AppendUnseenLastWins(_, _, _)
AppendUnseenLastWins(state, found, i) ==
  IF i > Len(found) THEN state
  ELSE
    LET account == found[i]
    IN IF account.account_number = "" THEN AppendUnseenLastWins(state, found, i + 1)
       ELSE IF account.account_number \notin state.seen_accounts
       THEN AppendUnseenLastWins(
              [accounts |-> Append(state.accounts, account),
               seen_accounts |-> state.seen_accounts \cup {account.account_number}],
              found, i + 1)
       ELSE AppendUnseenLastWins(
              [state EXCEPT !.accounts =
                 [k \in DOMAIN state.accounts |->
                    IF state.accounts[k].account_number = account.account_number
                    THEN account ELSE state.accounts[k]]],
              found, i + 1)

\* the loop that appends the accounts with a new, non-empty account number
RECURSIVE AppendUnseen(_, _, _)
AppendUnseen(state, found, i) ==
  IF i > Len(found) THEN state
  ELSE
    LET account == found[i]
    IN IF account.account_number # "" /\ account.account_number \notin state.seen_accounts
       THEN AppendUnseen([accounts |-> Append(state.accounts, account),
                          seen_accounts |-> state.seen_accounts \cup {account.account_number}],
                         found, i + 1)
       ELSE AppendUnseen(state, found, i + 1)

\* the loop over the account_details sections
RECURSIVE ConsolidateSections(_, _, _, _)
ConsolidateSections(state, pages, account_sections, s) ==
  IF s > Len(account_sections) THEN state
  ELSE ConsolidateSections(
         AppendUnseen(state, ExtractAccountsFromSection(pages, account_sections[s]).accounts, 1),
         pages, account_sections, s + 1)

\* ConsolidatePages that stops after the first page
ConsolidatePagesFirstOnly(state, pages, p) ==
  IF p > Len(pages) \/ p > 1 THEN state
  ELSE AppendUnseen(state, ExtractAccountsFromText(pages[p].text, p).accounts, 1)

\* the loop over the pages of the fallback
RECURSIVE ConsolidatePages(_, _, _)
ConsolidatePages(state, pages, p) ==
  IF p > Len(pages) THEN state
  ELSE ConsolidatePages(
         AppendUnseen(state, ExtractAccountsFromText(pages[p].text, p).accounts, 1),
         pages, p + 1)

\* the sections of type account_details
AccountSections(sections) == SelectSeq(sections, LAMBDA s : s.section_type = "account_details")

\* the raw page text is scanned: no account came out of the sections
UsesFallback(state) == state.accounts = << >>

\* _consolidate_accounts raises: a section read raises, or the fallback
\* runs and a page read raises
ConsolidateRaises(sections, pages) ==
  LET account_sections == AccountSections(sections)
      from_sections == ConsolidateSections([accounts |-> << >>, seen_accounts |-> {}],
                                           pages, account_sections, 1)
  IN \/ \E s \in DOMAIN account_sections :
           ExtractAccountsFromSection(pages, account_sections[s]).raised
     \/ /\ UsesFallback(from_sections)
        /\ \E p \in DOMAIN pages : ExtractAccountsFromText(pages[p].text, p).raised

\* _consolidate_accounts
ConsolidateAccounts(sections, pages) ==
  LET from_sections == ConsolidateSections([accounts |-> << >>, seen_accounts |-> {}],
                                           pages, AccountSections(sections), 1)
      all == IF UsesFallback(from_sections) THEN ConsolidatePages(from_sections, pages, 1)
             ELSE from_sections
  IN EnhanceAccountsWithAdditionalData(all.accounts, sections, pages)

(***************************************************************************)
(* Document-wide financial data                                            *)
(***************************************************************************)
\* " ".join of the page texts, from page p on
RECURSIVE AllTextFrom(_, _)
AllTextFrom(pages, p) ==
  IF p > Len(pages) THEN << >> ELSE pages[p].text \o AllTextFrom(pages, p + 1)

AllText(pages) == AllTextFrom(pages, 1)

\* the first phrase after phrase j that is not a line break ("" when none)
NextWord(text, j) ==
  LET later == {i \in DOMAIN text : i > j /\ text[i] # "NL"}
  IN IF later = {} THEN "" ELSE text[Min(later)]

\* int(group(1)) of a match of FINANCIAL_PATTERNS['cibil_score'][k] that
\* starts in phrase j, NoneInt when no match starts there.  The second
\* pattern (three digits, then cibil, credit or score) also matches a three
\* digit delinquency token that a score phrase follows.
ScoreMatch(text, j, k) ==
  CASE k = 1 /\ text[j] = "SCORE742" -> 742
    [] k = 1 /\ text[j] = "SCORE999" -> 999
    [] k = 2 /\ text[j] = "SCORE815" -> 815
    [] k = 2 /\ text[j] = "120" /\ NextWord(text, j) \in {"SCORE742", "SCORE999"} -> 120
    [] k = 2 /\ text[j] = "150" /\ NextWord(text, j) \in {"SCORE742", "SCORE999"} -> 150
    [] k = 2 /\ text[j] = "180" /\ NextWord(text, j) \in {"SCORE742", "SCORE999"} -> 180
    [] OTHER -> NoneInt

\* ExtractCibilScore without the test of the range
RECURSIVE ExtractCibilScoreAnyValue(_, _)
ExtractCibilScoreAnyValue(all_text, k) ==
  IF k > 3 THEN NoneInt
  ELSE
    LET hits == {j \in DOMAIN all_text : ScoreMatch(all_text, j, k) # NoneInt}
    IN IF hits = {} THEN ExtractCibilScoreAnyValue(all_text, k + 1)
       ELSE ScoreMatch(all_text, Min(hits), k)

\* the loop over FINANCIAL_PATTERNS['cibil_score'], from pattern k on: the
\* first match of a pattern is read, and the loop ends when it is valid
RECURSIVE ExtractCibilScore(_, _)
ExtractCibilScore(all_text, k) ==
  IF k > 3 THEN NoneInt
  ELSE
    LET hits == {j \in DOMAIN all_text : ScoreMatch(all_text, j, k) # NoneInt}
    IN IF hits = {} THEN ExtractCibilScore(all_text, k + 1)
       ELSE
         LET score == ScoreMatch(all_text, Min(hits), k)
         IN IF 300 <= score /\ score <= 900 THEN score
            ELSE ExtractCibilScore(all_text, k + 1)

\* the loop over FINANCIAL_PATTERNS['total_accounts']
ExtractTotalAccounts(all_text) ==
  LET counts == {j \in DOMAIN all_text : all_text[j] \in {"TOTAL3", "TOTAL2"}}
  IN IF counts = {} THEN 0
     ELSE IF all_text[Min(counts)] = "TOTAL3" THEN 3 ELSE 2

\* _aggregate_financial_data
AggregateFinancialData(sections, pages) ==
  [cibil_score |-> ExtractCibilScore(AllText(pages), 1),
   total_accounts |-> ExtractTotalAccounts(AllText(pages)),
   total_sanctioned_amount |-> 0,
   total_current_balance |-> 0,
   total_overdue_amount |-> 0,
   account_status_summary |-> << >>,
   loan_type_summary |-> << >>,
   bank_wise_summary |-> << >>]

(***************************************************************************)
(* Payment history summary                                                 *)
(***************************************************************************)
DelayBuckets == {"0", "30", "60", "90", "120+"}

\* the payment tokens of the payment_history sections, from section s on
RECURSIVE SectionPayments(_, _, _)
SectionPayments(pages, payment_sections, s) ==
  IF s > Len(payment_sections) THEN << >>
  ELSE FindPayments(pages[payment_sections[s].page_number].text,
                    payment_sections[s].content.lo, payment_sections[s].content.hi, 1)
         \o SectionPayments(pages, payment_sections, s + 1)

\* all_payment_data: the tokens of the sections, or of the whole text when
\* the sections give none
AllPaymentData(sections, pages) ==
  LET payment_sections == SelectSeq(sections, LAMBDA s : s.section_type = "payment_history")
      from_sections == SectionPayments(pages, payment_sections, 1)
  IN IF from_sections # << >> THEN from_sections
     ELSE FindPayments(AllText(pages), 0, TextLen(AllText(pages)), 1)

\* BucketOf without LSS in the last list
BucketOfWithoutLSS(indicator) ==
  CASE indicator = "0" -> "0"
    [] indicator = "30" -> "30"
    [] indicator = "60" -> "60"
    [] indicator = "90" -> "90"
    [] indicator \in {"120", "150", "180", "XXX", "STD", "SMA", "SUB", "DBT"} -> "120+"
    [] OTHER -> "none"

\* BucketOf with 120 in the branch of 90
BucketOfLate120(indicator) ==
  CASE indicator = "0" -> "0"
    [] indicator = "30" -> "30"
    [] indicator = "60" -> "60"
    [] indicator \in {"90", "120"} -> "90"
    [] indicator \in {"150", "180", "XXX", "STD", "SMA", "SUB", "DBT", "LSS"} -> "120+"
    [] OTHER -> "none"

\* the branch of the if/elif chain an indicator takes: its bucket
BucketOf(indicator) ==
  CASE indicator = "0" -> "0"
    [] indicator = "30" -> "30"
    [] indicator = "60" -> "60"
    [] indicator = "90" -> "90"
    [] indicator \in {"120", "150", "180", "XXX", "STD", "SMA", "SUB", "DBT", "LSS"} -> "120+"
    [] OTHER -> "none"

\* the branch increments total_delay_instances
CountsAsDelay(indicator) == BucketOf(indicator) \in {"30", "60", "90", "120+"}

\* the loop over all_payment_data, from entry i on: every entry adds one to
\* the category of its bucket, and one to total_delay_instances when it
\* counts as a delay
AnalyzePayments(summary, data, i) ==
  LET left == {j \in DOMAIN data : j >= i}
  IN [summary EXCEPT
        !.delay_categories =
           [b \in DelayBuckets |-> @[b] + Cardinality({j \in left : BucketOf(data[j]) = b})],
        !.total_delay_instances = @ + Cardinality({j \in left : CountsAsDelay(data[j])})]

\* pairs (n, d), d up to 200 and n up to d, for which the double n / d * 100
\* lies just under the whole number 100 * n / d
FloatShort ==
  {<<29, 50>>, <<29, 100>>, <<57, 100>>, <<58, 100>>, <<87, 150>>,
   <<58, 200>>, <<114, 200>>, <<116, 200>>}

\* IntPercent with round in the place of int
IntPercentRounded(n, d) ==
  LET q == (100 * n) \div d
      r == (100 * n) % d
  IN IF 2 * r < d THEN q
     ELSE IF 2 * r > d THEN q + 1
     ELSE IF q % 2 = 0 THEN q ELSE q + 1

\* int(n / d * 100) in double arithmetic, d positive
IntPercent(n, d) == ((100 * n) \div d) - (IF <<n, d>> \in FloatShort THEN 1 ELSE 0)

\* _consolidate_payment_history
ConsolidatePaymentHistory(sections, pages) ==
  LET counted == AnalyzePayments([total_delay_instances |-> 0,
                                  delay_categories |-> [b \in DelayBuckets |-> 0],
                                  payment_behavior_score |-> 0,
                                  recent_payment_trend |-> "stable"],
                                 AllPaymentData(sections, pages), 1)
      c == counted.delay_categories
      total_payments == c["0"] + c["30"] + c["60"] + c["90"] + c["120+"]
  IN IF total_payments > 0
     THEN [counted EXCEPT !.payment_behavior_score = IntPercent(c["0"], total_payments)]
     ELSE counted

(***************************************************************************)
(* Enquiries                                                               *)
(***************************************************************************)
\* int(group(1)) of the first pattern of FINANCIAL_PATTERNS['enquiries_count']
\* that matches in the literal of a phrase, NoneInt when none does
EnquiryCountIn(tok) ==
  CASE tok = "ENQ5" -> 5
    [] tok = "ENQ7" -> 7
    [] OTHER -> NoneInt

\* the pattern of FINANCIAL_PATTERNS['enquiries_count'] (numbered from 1)
\* that matches in the literal of a phrase with a count
EnquiryPattern(tok) == IF tok = "ENQ7" THEN 2 ELSE 1

\* re.findall of the institution pattern in the literal of a phrase
InstitutionsIn(tok) == IF tok \in {"BANK_X", "ACC_FULL"} THEN {"ABC BANK LTD"} ELSE {}

\* the loop over the enquiry_summary sections, from section s on: every
\* section with a count sets total_enquiries, every section adds institutions
RECURSIVE EnquiryLoop(_, _, _, _)
EnquiryLoop(summary, pages, enquiry_sections, s) ==
  IF s > Len(enquiry_sections) THEN summary
  ELSE
    LET section == enquiry_sections[s]
        toks == PhrasesIn(pages[section.page_number].text, section.content.lo, section.content.hi)
        counts(k) == {j \in DOMAIN toks : EnquiryCountIn(toks[j]) # NoneInt
                                           /\ EnquiryPattern(toks[j]) = k}
        total == IF counts(1) # {} THEN EnquiryCountIn(toks[Min(counts(1))])
                 ELSE IF counts(2) # {} THEN EnquiryCountIn(toks[Min(counts(2))])
                 ELSE summary.total_enquiries
        institutions == UNION {InstitutionsIn(toks[j]) : j \in DOMAIN toks}
    IN EnquiryLoop([summary EXCEPT !.total_enquiries = total,
                                   !.enquiring_institutions = @ \cup institutions],
                   pages, enquiry_sections, s + 1)

\* _aggregate_enquiry_data; enquiring_institutions is list(set(...)), a
\* list without duplicates in no particular order: a set
AggregateEnquiryData(sections, pages) ==
  EnquiryLoop([total_enquiries |-> 0, recent_enquiries_6m |-> 0, recent_enquiries_12m |-> 0,
               enquiry_types |-> << >>, enquiring_institutions |-> {}],
              pages, SelectSeq(sections, LAMBDA s : s.section_type = "enquiry_summary"), 1)

(***************************************************************************)
(* Quality metrics, metadata, report summary                               *)
(***************************************************************************)
\* a ratio num / den
Ratio(num, den) == [num |-> num, den |-> den]

\* _calculate_aggregation_quality with the two weights of the overall quality
\* exchanged (0.6 of the completeness, 0.4 of the consolidation)
CalculateAggregationQualityWeightsExchanged(pages, accounts, financial_data) ==
  LET found_data_points ==
        (IF financial_data.cibil_score # NoneInt /\ financial_data.cibil_score # 0 THEN 1 ELSE 0)
        + (IF accounts # << >> THEN 1 ELSE 0)
        + (IF financial_data.total_accounts # 0 THEN 1 ELSE 0)
      accounts_with_complete_data ==
        Cardinality({i \in DOMAIN accounts : /\ accounts[i].account_number # ""
                                             /\ accounts[i].bank_name # ""
                                             /\ accounts[i].loan_type # ""})
      completeness == Ratio(found_data_points, 3)
      consolidation == IF accounts # << >>
                       THEN Ratio(accounts_with_complete_data, Len(accounts))
                       ELSE Ratio(0, 1)
  IN [aggregation_completeness |-> completeness,
      data_consistency_score |-> Ratio(0, 1),
      cross_page_validation_score |-> Ratio(0, 1),
      account_consolidation_quality |-> consolidation,
      overall_aggregation_quality |->
        Ratio(6 * completeness.num * consolidation.den + 4 * consolidation.num * completeness.den,
              10 * completeness.den * consolidation.den)]

\* _calculate_aggregation_quality; the metrics are ratios
CalculateAggregationQuality(pages, accounts, financial_data) ==
  LET found_data_points ==
        (IF financial_data.cibil_score # NoneInt /\ financial_data.cibil_score # 0 THEN 1 ELSE 0)
        + (IF accounts # << >> THEN 1 ELSE 0)
        + (IF financial_data.total_accounts # 0 THEN 1 ELSE 0)
      accounts_with_complete_data ==
        Cardinality({i \in DOMAIN accounts : /\ accounts[i].account_number # ""
                                             /\ accounts[i].bank_name # ""
                                             /\ accounts[i].loan_type # ""})
      completeness == Ratio(found_data_points, 3)
      consolidation == IF accounts # << >>
                       THEN Ratio(accounts_with_complete_data, Len(accounts))
                       ELSE Ratio(0, 1)
  IN [aggregation_completeness |-> completeness,
      data_consistency_score |-> Ratio(0, 1),
      cross_page_validation_score |-> Ratio(0, 1),
      account_consolidation_quality |-> consolidation,
      \* completeness * 0.4 + consolidation * 0.6
      overall_aggregation_quality |->
        Ratio(4 * completeness.num * consolidation.den + 6 * consolidation.num * completeness.den,
              10 * completeness.den * consolidation.den)]

\* _create_processing_metadata (processing_timestamp, the clock's reading, is left out)
CreateProcessingMetadata(pages, sections) ==
  [total_pages_processed |-> Len(pages),
   sections_identified |-> Len(sections),
   section_types_found |-> {sections[s].section_type : s \in DOMAIN sections},
   aggregation_method |-> "multi_page_comprehensive",
   data_sources |-> [i \in DOMAIN pages |-> i]]

\* StatusHolds that takes every status for one that holds the word
StatusHoldsOfAnyStatus(account_status, word) == account_status # None

\* word in account_status.lower(), for the statuses the phrases give
StatusHolds(account_status, word) == account_status # None /\ account_status = word

\* the number of accounts whose status holds the word
StatusCount(accounts, word) ==
  Cardinality({i \in DOMAIN accounts : StatusHolds(accounts[i].account_status, word)})

\* _generate_report_summary without the test of accounts at the end of the
\* expression of data_completeness_percentage
GenerateReportSummaryWithoutAccountsTest(accounts, financial, payment, enquiry) ==
  [cibil_score |-> financial.cibil_score,
   total_accounts |-> Len(accounts),
   total_active_accounts |-> StatusCount(accounts, "active"),
   total_closed_accounts |-> StatusCount(accounts, "closed"),
   total_settled_accounts |-> StatusCount(accounts, "settled"),
   payment_delay_instances |-> payment.total_delay_instances,
   payment_behavior_score |-> payment.payment_behavior_score,
   total_enquiries |-> enquiry.total_enquiries,
   unique_banks |-> Cardinality({accounts[i].bank_name : i \in DOMAIN accounts} \ {""}),
   loan_types |-> {accounts[i].loan_type : i \in DOMAIN accounts} \ {""},
   accounts_with_overdue |->
     Cardinality({i \in DOMAIN accounts : accounts[i].overdue_amount \notin {None, "", "0"}}),
   data_completeness_percentage |->
     IntPercent(financial.total_accounts, Max2(Len(accounts), 1))]

\* _generate_report_summary
GenerateReportSummary(accounts, financial, payment, enquiry) ==
  [cibil_score |-> financial.cibil_score,
   total_accounts |-> Len(accounts),
   total_active_accounts |-> StatusCount(accounts, "active"),
   total_closed_accounts |-> StatusCount(accounts, "closed"),
   total_settled_accounts |-> StatusCount(accounts, "settled"),
   payment_delay_instances |-> payment.total_delay_instances,
   payment_behavior_score |-> payment.payment_behavior_score,
   total_enquiries |-> enquiry.total_enquiries,
   unique_banks |-> Cardinality({accounts[i].bank_name : i \in DOMAIN accounts} \ {""}),
   loan_types |-> {accounts[i].loan_type : i \in DOMAIN accounts} \ {""},
   accounts_with_overdue |->
     Cardinality({i \in DOMAIN accounts : accounts[i].overdue_amount \notin {None, "", "0"}}),
   data_completeness_percentage |->
     IF accounts # << >> THEN IntPercent(financial.total_accounts, Max2(Len(accounts), 1)) ELSE 0]

(***************************************************************************)
(* Page normalization: _preprocess_cibil_text on texts of characters.      *)
(* A text is a sequence of characters, each a string of length one;        *)
(* "RUPEE" stands for the one character U+20B9, the rupee sign.            *)
(***************************************************************************)
MaxFrags == 3

\* the characters \s matches
Whitespace == {" ", "\n", "\t"}

\* the lower case of a character, for the patterns under (?i)
Lower(ch) ==
  CASE ch = "A" -> "a" [] ch = "B" -> "b" [] ch = "C" -> "c" [] ch = "D" -> "d"
    [] ch = "E" -> "e" [] ch = "I" -> "i" [] ch = "L" -> "l" [] ch = "N" -> "n"
    [] ch = "O" -> "o" [] ch = "R" -> "r" [] ch = "T" -> "t" [] ch = "U" -> "u"
    [] OTHER -> ch

\* the length of the longest run of whitespace that starts at place i
WhitespaceRun(text, i) ==
  LET stops == {j \in i..Len(text) : text[j] \notin Whitespace}
  IN IF stops = {} THEN Max2(Len(text) - i + 1, 0) ELSE Min(stops) - i

\* a word of character classes, whatever the case, starts at place i
MatchesWord(text, i, classes) ==
  /\ i + Len(classes) - 1 <= Len(text)
  /\ \A k \in DOMAIN classes : Lower(text[i + k - 1]) \in classes[k]

\* SeparatorMatch that takes the separator alone, without the whitespace
\* around it
SeparatorAlone(text, i, sep) ==
  IF i <= Len(text) /\ text[i] = sep THEN 1 ELSE 0

\* the length of the match of \s*sep\s* that starts at place i, 0 when none
SeparatorMatch(text, i, sep) ==
  LET w == WhitespaceRun(text, i)
  IN IF i + w <= Len(text) /\ text[i + w] = sep
     THEN w + 1 + WhitespaceRun(text, i + w + 1)
     ELSE 0

\* the length of the match of a pattern of _preprocess_cibil_text that
\* starts at place i of the text, 0 when none starts there
MatchLen(pattern, text, i) ==
  CASE pattern = "\\s+" -> WhitespaceRun(text, i)
    [] pattern = "\\n\\s*\\n" ->
         IF text[i] = "\n"
         THEN LET run == WhitespaceRun(text, i + 1)
                  ends == {j \in (i + 1)..(i + run) : text[j] = "\n"}
              IN IF ends = {} THEN 0 ELSE Max(ends) - i + 1
         ELSE 0
    [] pattern = "(?i)c[il1]b[il1]l" ->
         IF MatchesWord(text, i, <<{"c"}, {"i", "l", "1"}, {"b"}, {"i", "l", "1"}, {"l"}>>)
         THEN 5 ELSE 0
    [] pattern = "(?i)cr[e3]d[il1]t" ->
         IF MatchesWord(text, i, <<{"c"}, {"r"}, {"e", "3"}, {"d"}, {"i", "l", "1"}, {"t"}>>)
         THEN 6 ELSE 0
    [] pattern = "(?i)acc[o0]unt" ->
         IF MatchesWord(text, i, <<{"a"}, {"c"}, {"c"}, {"o", "0"}, {"u"}, {"n"}, {"t"}>>)
         THEN 7 ELSE 0
    [] pattern = "Rs\\.?\\s*" ->
         IF i + 1 <= Len(text) /\ text[i] = "R" /\ text[i + 1] = "s"
         THEN LET dot == IF i + 2 <= Len(text) /\ text[i + 2] = "." THEN 1 ELSE 0
              IN 2 + dot + WhitespaceRun(text, i + 2 + dot)
         ELSE 0
    [] pattern = "INR\\s*" ->
         IF i + 2 <= Len(text) /\ text[i] = "I" /\ text[i + 1] = "N" /\ text[i + 2] = "R"
         THEN 3 + WhitespaceRun(text, i + 3)
         ELSE 0
    [] pattern = "\\s*\\|\\s*" -> SeparatorMatch(text, i, "|")
    [] pattern = "\\s*:\\s*" -> SeparatorMatch(text, i, ":")

\* re.sub(pattern, repl, text) from place i on: the matches from left to
\* right, none overlapping another
RECURSIVE ReSub(_, _, _, _)
ReSub(pattern, repl, text, i) ==
  IF i > Len(text) THEN << >>
  ELSE
    LET n == MatchLen(pattern, text, i)
    IN IF n > 0 THEN repl \o ReSub(pattern, repl, text, i + n)
       ELSE <<text[i]>> \o ReSub(pattern, repl, text, i + 1)

\* text.strip()
StripChars(text) ==
  LET kept == {j \in DOMAIN text : text[j] \notin Whitespace}
  IN IF kept = {} THEN << >> ELSE SubSeq(text, Min(kept), Max(kept))

\* _preprocess_cibil_text
PreprocessCibilText(text) ==
  IF text = << >> THEN text
  ELSE
    LET t1 == ReSub("\\s+", <<" ">>, text, 1)
        t2 == ReSub("\\n\\s*\\n", <<"\n">>, t1, 1)
        t3 == ReSub("(?i)c[il1]b[il1]l", <<"C", "I", "B", "I", "L">>, t2, 1)
        t4 == ReSub("(?i)cr[e3]d[il1]t", <<"c", "r", "e", "d", "i", "t">>, t3, 1)
        t5 == ReSub("(?i)acc[o0]unt", <<"a", "c", "c", "o", "u", "n", "t">>, t4, 1)
        t6 == ReSub("Rs\\.?\\s*", <<"RUPEE">>, t5, 1)
        t7 == ReSub("INR\\s*", <<"RUPEE">>, t6, 1)
        t8 == ReSub("\\s*\\|\\s*", <<" ", "|", " ">>, t7, 1)
        t9 == ReSub("\\s*:\\s*", <<":", " ">>, t8, 1)
    IN StripChars(t9)

\* the pieces the raw texts are made of
Fragments ==
  {<<" ">>, <<"\n">>, <<"|">>, <<":">>, <<".">>, <<"s">>, <<"x">>,
   <<"R", "s">>, <<"I", "N", "R">>,
   <<"c", "1", "b", "1", "l">>, <<"C", "r", "3", "d", "1", "T">>,
   <<"a", "c", "c", "0", "u", "n", "t">>}

\* the pieces from piece k on, one after the other
RECURSIVE Concat(_, _)
Concat(pieces, k) ==
  IF k > Len(pieces) THEN << >> ELSE pieces[k] \o Concat(pieces, k + 1)

(***************************************************************************)
(* Page confidence: _calculate_page_confidence and what it is given.       *)
(* Confidences are in tenths; the doubles of the program lie within 2^-52  *)
(* of these tenths and never above 1.0.                                    *)
(***************************************************************************)
MaxLength == 101
MaxIndicators == 5

\* the patterns of CIBIL_INDICATORS and TABLE_PATTERNS that match in the
\* lower case literal of a phrase
CIBIL_INDICATORS(tok) ==
  CASE tok = "SCORE742" -> {"cibil\\s*(?:trans\\s*union)?"}
    [] tok = "PAYHIST" -> {"payment\\s*history"}
    [] OTHER -> {}

\* _detect_cibil_indicators: the patterns that match in the text
DetectCibilIndicators(text) == UNION {CIBIL_INDICATORS(text[j]) : j \in DOMAIN text}

\* _extract_page_account_data: the account numbers, bank names and loan
\* types found in the text
ExtractPageAccountData(text) ==
  [account_numbers |-> {NumberIn(text[j]) : j \in DOMAIN text} \ {""},
   bank_names |-> {"ABC BANK LTD" : j \in {i \in DOMAIN text : text[i] \in {"BANK_X", "ACC_FULL"}}},
   loan_types |-> {"home loan" : j \in {i \in DOMAIN text : text[i] = "LOANW"}}]

\* CalculatePageConfidence without the last min
CalculatePageConfidenceUnclamped(text_length, indicators, account_data) ==
  (IF text_length > 100 THEN 3 ELSE IF text_length > 50 THEN 2
   ELSE IF text_length > 10 THEN 1 ELSE 0)
  + Min2(indicators, 4)
  + (IF account_data.account_numbers # {} THEN 2 ELSE 0)
  + (IF account_data.bank_names # {} THEN 1 ELSE 0)
  + (IF account_data.loan_types # {} THEN 1 ELSE 0)

\* _calculate_page_confidence on a text of text_length characters and a
\* list of so many indicators, in tenths
CalculatePageConfidence(text_length, indicators, account_data) ==
  LET by_length == IF text_length > 100 THEN 3
                   ELSE IF text_length > 50 THEN 2
                   ELSE IF text_length > 10 THEN 1
                   ELSE 0
      by_indicators == Min2(indicators, 4)
      by_data == (IF account_data.account_numbers # {} THEN 2 ELSE 0)
                 + (IF account_data.bank_names # {} THEN 1 ELSE 0)
                 + (IF account_data.loan_types # {} THEN 1 ELSE 0)
  IN Min2(by_length + by_indicators + by_data, 10)

\* the confidence _extract_pages_optimized gives a page with this text
PageConfidence(text) ==
  CalculatePageConfidence(TextLen(text), Cardinality(DetectCibilIndicators(text)),
                          ExtractPageAccountData(text))

(***************************************************************************)
(* The inputs                                                              *)
(***************************************************************************)
\* the ways to cut a text of length n in p consecutive pages
Cuts(n, p) == {c \in [1..(p - 1) -> 0..n] : \A i \in 1..(p - 2) : c[i] <= c[i + 1]}

\* pages_data: the p pages the cuts make of a text
PagesOf(flat, c, p) ==
  [i \in 1..p |->
     [page_number |-> i,
      text |-> SubSeq(flat, (IF i = 1 THEN 0 ELSE c[i - 1]) + 1,
                      IF i = p THEN Len(flat) ELSE c[i])]]

\* doc is a document of at most maxPages pages and maxToks phrases in all
IsDocument(doc, vocabulary, maxToks, maxPages) ==
  \E k \in 0..maxToks : \E flat \in [1..k -> vocabulary] :
    \E p \in 0..maxPages : \E c \in Cuts(k, p) :
      /\ p = 0 => k = 0
      /\ doc = PagesOf(flat, c, p)

AccountVocabulary == {"ACC_A", "ACC_B", "BANK_X", "DETAILS", "NL"}

(***************************************************************************)
(* aggregate_multi_page_data, one step per call of the method              *)
(***************************************************************************)
VARIABLES pages_data, pc, sections, all_accounts, financial_data, payment_history,
          enquiry_summary, quality_metrics, processing_metadata, report_summary,
          raw_text, once, twice, page_inputs, confidence, report, split_text, account_blocks,
          reader, aggregated_data, result

\* the texts of page normalization
normalizer == <<raw_text, once, twice>>

\* what _calculate_page_confidence is given, and its result
page_scoring == <<page_inputs, confidence>>

\* what _split_into_account_blocks is given, and its result
block_splitting == <<split_text, account_blocks>>

\* what the PdfReader gives, what _aggregate_multi_page_data returns, and
\* what process_cibil_pdf returns
processor == <<reader, aggregated_data, result>>

vars == <<pages_data, pc, sections, all_accounts, financial_data, payment_history,
          enquiry_summary, quality_metrics, processing_metadata, report_summary, normalizer,
          page_scoring, report, block_splitting, processor>>

\* no file is being processed
ProcessorIdle ==
  /\ reader = [readable |-> TRUE, pages |-> << >>]
  /\ aggregated_data = [keys |-> {}, enhanced |-> FALSE]
  /\ result = [success |-> FALSE, keys |-> {}, error |-> None]

\* the call starts: nothing is computed yet
Fresh ==
  /\ pc = "identify_sections"
  /\ sections = << >>
  /\ all_accounts = << >>
  /\ financial_data = None
  /\ payment_history = None
  /\ enquiry_summary = None
  /\ quality_metrics = None
  /\ processing_metadata = None
  /\ report_summary = None
  /\ raw_text = << >>
  /\ once = << >>
  /\ twice = << >>
  /\ page_inputs = << >>
  /\ confidence = 0
  /\ report = << >>
  /\ ProcessorIdle
  /\ split_text = << >>
  /\ account_blocks = << >>

\* the call starts on the pages of a document
Started(vocabulary, maxToks, maxPages) ==
  /\ IsDocument(pages_data, vocabulary, maxToks, maxPages)
  /\ Fresh

Init == Started(AccountVocabulary, MaxToks, MaxPages)

\* the AggregatedCibilData that a call returns
AggregatedCibilData(summary, accounts, financial, payment, enquiry, quality, metadata) ==
  [report_summary |-> summary,
   all_accounts |-> accounts,
   consolidated_financial_data |-> financial,
   payment_history_summary |-> payment,
   enquiry_summary |-> enquiry,
   data_quality_metrics |-> quality,
   processing_metadata |-> metadata]

\* Step1IdentifySections that passes over the elements it cannot read
Step1SkipsUnreadable ==
  /\ pc = "identify_sections"
  /\ sections' = IdentifySections(SelectSeq(pages_data,
                                            LAMBDA page : IsMapping(page) /\ TextIsString(page)))
  /\ pc' = "consolidate_accounts"
  /\ UNCHANGED <<processor, report, normalizer, page_scoring, block_splitting, pages_data, all_accounts, financial_data,
                 payment_history, enquiry_summary, quality_metrics, processing_metadata,
                 report_summary>>

Step1IdentifySections ==
  /\ pc = "identify_sections"
  /\ IF IdentifyRaises(pages_data)
     THEN /\ pc' = "raised"
          /\ UNCHANGED sections
     ELSE /\ sections' = IdentifySections(pages_data)
          /\ pc' = "consolidate_accounts"
  /\ UNCHANGED <<processor, report, normalizer, page_scoring, block_splitting, pages_data, all_accounts, financial_data, payment_history, enquiry_summary,
                 quality_metrics, processing_metadata, report_summary>>

Step2ConsolidateAccounts ==
  /\ pc = "consolidate_accounts"
  /\ IF ConsolidateRaises(sections, pages_data)
     THEN /\ pc' = "raised"
          /\ UNCHANGED all_accounts
     ELSE /\ all_accounts' = ConsolidateAccounts(sections, pages_data)
          /\ pc' = "aggregate_financial_data"
  /\ UNCHANGED <<processor, report, normalizer, page_scoring, block_splitting, pages_data, sections, financial_data, payment_history, enquiry_summary,
                 quality_metrics, processing_metadata, report_summary>>

Step3AggregateFinancialData ==
  /\ pc = "aggregate_financial_data"
  /\ financial_data' = AggregateFinancialData(sections, pages_data)
  /\ pc' = "consolidate_payment_history"
  /\ UNCHANGED <<processor, report, normalizer, page_scoring, block_splitting, pages_data, sections, all_accounts, payment_history, enquiry_summary,
                 quality_metrics, processing_metadata, report_summary>>

Step4ConsolidatePaymentHistory ==
  /\ pc = "consolidate_payment_history"
  /\ payment_history' = ConsolidatePaymentHistory(sections, pages_data)
  /\ pc' = "aggregate_enquiry_data"
  /\ UNCHANGED <<processor, report, normalizer, page_scoring, block_splitting, pages_data, sections, all_accounts, financial_data, enquiry_summary,
                 quality_metrics, processing_metadata, report_summary>>

Step5AggregateEnquiryData ==
  /\ pc = "aggregate_enquiry_data"
  /\ enquiry_summary' = AggregateEnquiryData(sections, pages_data)
  /\ pc' = "calculate_aggregation_quality"
  /\ UNCHANGED <<processor, report, normalizer, page_scoring, block_splitting, pages_data, sections, all_accounts, financial_data, payment_history,
                 quality_metrics, processing_metadata, report_summary>>

Step6CalculateAggregationQuality ==
  /\ pc = "calculate_aggregation_quality"
  /\ quality_metrics' = CalculateAggregationQuality(pages_data, all_accounts, financial_data)
  /\ pc' = "create_processing_metadata"
  /\ UNCHANGED <<processor, report, normalizer, page_scoring, block_splitting, pages_data, sections, all_accounts, financial_data, payment_history,
                 enquiry_summary, processing_metadata, report_summary>>

Step7CreateProcessingMetadata ==
  /\ pc = "create_processing_metadata"
  /\ processing_metadata' = CreateProcessingMetadata(pages_data, sections)
  /\ pc' = "generate_report_summary"
  /\ UNCHANGED <<processor, report, normalizer, page_scoring, block_splitting, pages_data, sections, all_accounts, financial_data, payment_history,
                 enquiry_summary, quality_metrics, report_summary>>

Step8GenerateReportSummary ==
  /\ pc = "generate_report_summary"
  /\ report_summary' = GenerateReportSummary(all_accounts, financial_data, payment_history,
                                             enquiry_summary)
  /\ report' = AggregatedCibilData(report_summary', all_accounts, financial_data,
                                   payment_history, enquiry_summary, quality_metrics,
                                   processing_metadata)
  /\ pc' = "returned"
  /\ UNCHANGED <<processor, normalizer, page_scoring, block_splitting, pages_data, sections, all_accounts, financial_data, payment_history,
                 enquiry_summary, quality_metrics, processing_metadata>>

Next ==
  \/ Step1IdentifySections
  \/ Step2ConsolidateAccounts
  \/ Step3AggregateFinancialData
  \/ Step4ConsolidatePaymentHistory
  \/ Step5AggregateEnquiryData
  \/ Step6CalculateAggregationQuality
  \/ Step7CreateProcessingMetadata
  \/ Step8GenerateReportSummary

Spec == Init /\ [][Next]_vars

(***************************************************************************)
(* Properties of account consolidation (specification Spec)                *)
(***************************************************************************)
\* _consolidate_accounts has returned
AccountsDone == pc \notin {"identify_sections", "consolidate_accounts", "raised"}

\* the records of the account_details sections, in section order
RECURSIVE RecordsOfSections(_, _, _)
RecordsOfSections(pages, account_sections, s) ==
  IF s > Len(account_sections) THEN << >>
  ELSE ExtractAccountsFromSection(pages, account_sections[s]).accounts
         \o RecordsOfSections(pages, account_sections, s + 1)

\* the records of the raw page texts, in page order
RECURSIVE RecordsOfPages(_, _)
RecordsOfPages(pages, p) ==
  IF p > Len(pages) THEN << >>
  ELSE ExtractAccountsFromText(pages[p].text, p).accounts \o RecordsOfPages(pages, p + 1)

\* the records extracted in the run, in the order of their extraction: those
\* of the sections, then those of the pages when the pages were scanned
ExtractedRecords ==
  LET of_sections == RecordsOfSections(pages_data, AccountSections(sections), 1)
  IN IF \E i \in DOMAIN of_sections : of_sections[i].account_number # ""
     THEN of_sections
     ELSE of_sections \o RecordsOfPages(pages_data, 1)

\* the fields of a record that block extraction sets
ExtractedFields(a) ==
  <<a.account_number, a.bank_name, a.loan_type, a.sanctioned_amount, a.current_balance,
    a.overdue_amount, a.account_status, a.page_number>>

\* the place of the first record with the account number
FirstSighting(records, number) ==
  Min({i \in DOMAIN records : records[i].account_number = number})

\* C1: no two entries of all_accounts have the same non-empty account_number
C1_NoDuplicateAccountNumber ==
  AccountsDone =>
    \A i, j \in DOMAIN all_accounts :
      (i # j /\ all_accounts[i].account_number # "")
        => all_accounts[i].account_number # all_accounts[j].account_number

\* a run through the sections in which an account number was extracted twice
C1_Witness ==
  /\ pc = "returned"
  /\ AccountSections(sections) # << >>
  /\ all_accounts # << >>
  /\ \E i, j \in DOMAIN ExtractedRecords :
       /\ i < j
       /\ ExtractedRecords[i].account_number # ""
       /\ ExtractedRecords[i].account_number = ExtractedRecords[j].account_number

\* C2: of the extracted records with the same non-empty account number
\* all_accounts keeps the first, with its extracted fields, and all_accounts
\* is in the order of the first sightings
C2_FirstSeenWins ==
  AccountsDone =>
    LET r == ExtractedRecords
        Number(i) == all_accounts[i].account_number
    IN /\ {Number(i) : i \in DOMAIN all_accounts} = {r[k].account_number : k \in DOMAIN r} \ {""}
       /\ \A i \in DOMAIN all_accounts :
            ExtractedFields(all_accounts[i]) = ExtractedFields(r[FirstSighting(r, Number(i))])
       /\ \A i, j \in DOMAIN all_accounts :
            i < j => FirstSighting(r, Number(i)) < FirstSighting(r, Number(j))

\* a run in which two records with the same account number and different
\* fields were extracted
C2_Witness ==
  /\ pc = "returned"
  /\ \E i, j \in DOMAIN ExtractedRecords :
       /\ i < j
       /\ ExtractedRecords[i].account_number # ""
       /\ ExtractedRecords[i].account_number = ExtractedRecords[j].account_number
       /\ ExtractedFields(ExtractedRecords[i]) # ExtractedFields(ExtractedRecords[j])

\* the account numbers read in the blocks of the raw text of a page
NumbersOfPage(text) ==
  LET blocks == SplitIntoAccountBlocks(text)
  IN {ExtractField(blocks[b], "account_number").value :
        b \in {x \in DOMAIN blocks : ExtractField(blocks[x], "account_number").found}}

\* C8: without an account_details section the accounts are those of the
\* blocks of the raw page texts: all_accounts is empty only if no block of
\* a page gives an account number
C8_FallbackScansEveryPage ==
  (AccountsDone /\ AccountSections(sections) = << >>) =>
    /\ {all_accounts[i].account_number : i \in DOMAIN all_accounts}
         = UNION {NumbersOfPage(pages_data[p].text) : p \in DOMAIN pages_data}
    /\ \A i, j \in DOMAIN all_accounts : i < j => all_accounts[i].page_number <= all_accounts[j].page_number

\* a run without account_details section that found an account on the second page
C8_Witness ==
  /\ pc = "returned"
  /\ AccountSections(sections) = << >>
  /\ \E i \in DOMAIN all_accounts : all_accounts[i].page_number = 2

\* the account numbers written in the content of a section
NumbersInSection(section) ==
  LET toks == PhrasesIn(pages_data[section.page_number].text,
                        section.content.lo, section.content.hi)
  IN {NumberIn(toks[j]) : j \in DOMAIN toks} \ {""}

\* C9: when an account_details section exists, every entry of all_accounts
\* comes from the content of an account_details section
C9_NoFallbackWithSections ==
  (AccountsDone /\ AccountSections(sections) # << >>) =>
    \A i \in DOMAIN all_accounts :
      \E s \in DOMAIN AccountSections(sections) :
        /\ AccountSections(sections)[s].page_number = all_accounts[i].page_number
        /\ all_accounts[i].account_number \in NumbersInSection(AccountSections(sections)[s])

\* C15: every record extracted with an account number or a bank name
\* reaches all_accounts; a record with a bank name and no account number is
\* kept, with bank_name as its identity
C15_BankOnlyRetained ==
  AccountsDone =>
    \A i \in DOMAIN ExtractedRecords :
      (ExtractedRecords[i].account_number = "" /\ ExtractedRecords[i].bank_name # "")
        => \E a \in DOMAIN all_accounts :
             /\ all_accounts[a].account_number = ""
             /\ all_accounts[a].bank_name = ExtractedRecords[i].bank_name

(***************************************************************************)
(* Properties of the payment history summary (specification SpecPay)       *)
(***************************************************************************)
MaxPayToks == 2

\* the vocabulary of the longer payment texts
PaymentVocabulary == {"0", "30", "XXX", "PAYHIST"}

\* the payment history text "0 0 30 0 60 XXX" on one page
ScenarioB == <<[page_number |-> 1, text |-> <<"0", "0", "30", "0", "60", "XXX">>]>>

\* short texts of all the delinquency tokens and payment history headings,
\* longer texts of a few of them, or the text of scenario B
InitPay ==
  \/ Started(PaymentTokens \cup {"PAYHIST"}, MaxPayToks, MaxPages)
  \/ Started(PaymentVocabulary, MaxToks, MaxPages)
  \/ pages_data = ScenarioB /\ Fresh

SpecPay == InitPay /\ [][Next]_vars

\* _consolidate_payment_history has returned
PaymentDone ==
  pc \in {"aggregate_enquiry_data", "calculate_aggregation_quality",
          "create_processing_metadata", "generate_report_summary", "returned"}

\* the delinquency tokens _consolidate_payment_history found
TokensFound == AllPaymentData(sections, pages_data)

\* the sum of the five counts of delay_categories
SumOfCategories ==
  LET c == payment_history.delay_categories
  IN c["0"] + c["30"] + c["60"] + c["90"] + c["120+"]

\* C3: the five counts of delay_categories add up to the number of
\* delinquency tokens found, and total_delay_instances is that sum less the
\* count of bucket "0"
C3_BucketSum ==
  PaymentDone =>
    LET sum == SumOfCategories
    IN /\ sum = Len(TokensFound)
       /\ payment_history.total_delay_instances = sum - payment_history.delay_categories["0"]

\* a run that found on-time tokens and delays
C3_Witness ==
  /\ pc = "returned"
  /\ Len(TokensFound) >= 3
  /\ payment_history.delay_categories["0"] > 0
  /\ payment_history.total_delay_instances > 0

\* the bucket the bucketing rule gives a token
RuleBucket(token) ==
  IF token \in {"0", "30", "60", "90"} THEN token
  ELSE IF token \in {"120", "150", "180", "XXX", "STD", "SMA", "SUB", "DBT", "LSS"} THEN "120+"
  ELSE "none"

\* C4: every token found is counted in the one bucket the rule gives it,
\* every token but "0" is a delay instance, and the tokens 0 0 30 0 60 XXX
\* give {0:3, 30:1, 60:1, 90:0, 120+:1} and 3 delay instances
C4_BucketPerToken ==
  PaymentDone =>
    LET found == TokensFound
    IN /\ \A t \in DOMAIN found : RuleBucket(found[t]) \in DelayBuckets
       /\ \A b \in DelayBuckets :
            payment_history.delay_categories[b]
              = Cardinality({t \in DOMAIN found : RuleBucket(found[t]) = b})
       /\ payment_history.total_delay_instances
            = Cardinality({t \in DOMAIN found : found[t] # "0"})
       /\ pages_data = ScenarioB =>
            /\ payment_history.delay_categories
                 = [b \in DelayBuckets |->
                      CASE b = "0" -> 3 [] b = "30" -> 1 [] b = "60" -> 1 [] b = "90" -> 0
                        [] b = "120+" -> 1]
            /\ payment_history.total_delay_instances = 3

\* the run of scenario B has returned, with one token in the bucket "120+"
C4_Witness ==
  /\ pc = "returned"
  /\ pages_data = ScenarioB
  /\ payment_history.delay_categories["120+"] = 1

\* round(100 * n / d), halves to the even neighbour, d positive
RoundPercent(n, d) ==
  LET q == (100 * n) \div d
      r == (100 * n) % d
  IN IF 2 * r < d THEN q
     ELSE IF 2 * r > d THEN q + 1
     ELSE IF q % 2 = 0 THEN q ELSE q + 1

\* C5 as stated: payment_behavior_score is the percentage of on-time tokens
\* rounded to the nearest integer, 0 when no token was found
C5_ScoreIsRounded ==
  PaymentDone =>
    payment_history.payment_behavior_score
      = IF SumOfCategories > 0
        THEN RoundPercent(payment_history.delay_categories["0"], SumOfCategories)
        ELSE 0

\* C5: payment_behavior_score is the percentage of on-time tokens with its
\* fraction cut off (one less for the counts of FloatShort), 0 when no
\* token was found
C5_ScoreIsTruncated ==
  PaymentDone =>
    LET zeros == payment_history.delay_categories["0"]
        score == payment_history.payment_behavior_score
        whole == IF <<zeros, SumOfCategories>> \in FloatShort THEN score + 1 ELSE score
    IN IF SumOfCategories > 0
       THEN whole * SumOfCategories <= 100 * zeros /\ 100 * zeros < (whole + 1) * SumOfCategories
       ELSE score = 0

\* a run with two on-time tokens of three: 66.67 percent
C5_Witness ==
  /\ pc = "returned"
  /\ payment_history.delay_categories["0"] = 2
  /\ SumOfCategories = 3

(***************************************************************************)
(* Properties of the scores (specification SpecFin)                        *)
(***************************************************************************)
MaxFinToks == 3

FinancialVocabulary ==
  {"ACC_FULL", "ACC_A", "SCORE742", "SCORE999", "SCORE815", "TOTAL3", "120"}

\* texts of accounts and score phrases, or payment texts
InitFin ==
  \/ Started(FinancialVocabulary, MaxFinToks, MaxPages)
  \/ Started(PaymentVocabulary, MaxToks, MaxPages)

SpecFin == InitFin /\ [][Next]_vars

\* _aggregate_financial_data has returned
FinancialDone ==
  pc \in {"consolidate_payment_history", "aggregate_enquiry_data",
          "calculate_aggregation_quality", "create_processing_metadata",
          "generate_report_summary", "returned"}

\* a ratio between 0 and 1
InUnitInterval(ratio) == ratio.den > 0 /\ 0 <= ratio.num /\ ratio.num <= ratio.den

\* C6: in the report returned payment_behavior_score is an integer from 0 to
\* 100, every data quality metric lies between 0 and 1, and cibil_score is
\* None or an integer from 300 to 900
C6_ScoreBounds ==
  pc = "returned" =>
    /\ payment_history.payment_behavior_score \in 0..100
    /\ \A metric \in DOMAIN quality_metrics : InUnitInterval(quality_metrics[metric])
    /\ financial_data.cibil_score = NoneInt \/ financial_data.cibil_score \in 300..900

\* a report on a text with the score 999 in it and an account, no score stored
C6_Witness ==
  /\ pc = "returned"
  /\ \E j \in DOMAIN AllText(pages_data) : AllText(pages_data)[j] = "SCORE999"
  /\ all_accounts # << >>
  /\ financial_data.cibil_score = NoneInt

\* C7: cibil_score is None only when no pattern of the cibil_score list has
\* a match with a value from 300 to 900 anywhere in the text of the document
C7_FirstValidScore ==
  (FinancialDone /\ financial_data.cibil_score = NoneInt) =>
    \A k \in 1..3 : \A j \in DOMAIN AllText(pages_data) :
      ScoreMatch(AllText(pages_data), j, k) \notin 300..900

(***************************************************************************)
(* Properties of page normalization (specification SpecNorm)               *)
(***************************************************************************)
\* a raw text of at most MaxFrags pieces awaits normalization
InitNorm ==
  /\ \E k \in 0..MaxFrags : \E pieces \in [1..k -> Fragments] : raw_text = Concat(pieces, 1)
  /\ once = << >>
  /\ twice = << >>
  /\ page_inputs = << >>
  /\ confidence = 0
  /\ report = << >>
  /\ ProcessorIdle
  /\ split_text = << >>
  /\ account_blocks = << >>
  /\ pc = "preprocess"
  /\ pages_data = << >>
  /\ sections = << >>
  /\ all_accounts = << >>
  /\ financial_data = None
  /\ payment_history = None
  /\ enquiry_summary = None
  /\ quality_metrics = None
  /\ processing_metadata = None
  /\ report_summary = None

\* _preprocess_cibil_text on the raw text
Preprocess ==
  /\ pc = "preprocess"
  /\ once' = PreprocessCibilText(raw_text)
  /\ pc' = "preprocessed"
  /\ UNCHANGED <<processor, report, page_scoring, block_splitting, raw_text, twice, pages_data, sections, all_accounts, financial_data,
                 payment_history, enquiry_summary, quality_metrics, processing_metadata,
                 report_summary>>

\* _preprocess_cibil_text on its own result
PreprocessAgain ==
  /\ pc = "preprocessed"
  /\ twice' = PreprocessCibilText(once)
  /\ pc' = "preprocessed_twice"
  /\ UNCHANGED <<processor, report, page_scoring, block_splitting, raw_text, once, pages_data, sections, all_accounts, financial_data,
                 payment_history, enquiry_summary, quality_metrics, processing_metadata,
                 report_summary>>

NextNorm ==
  \/ Preprocess
  \/ PreprocessAgain

SpecNorm == InitNorm /\ [][NextNorm]_vars

\* C10: normalizing a normalized text gives the same text
C10_Idempotent == pc = "preprocessed_twice" => twice = once

\* a text was normalized twice: the first time the text changed, and a
\* separator stands next to a currency sign or a corrected word in the result
C10_Witness ==
  /\ pc = "preprocessed_twice"
  /\ once # raw_text
  /\ \E j \in DOMAIN once :
       /\ once[j] \in {"|", ":"}
       /\ j + 2 <= Len(once)
       /\ once[j + 2] \in {"RUPEE", "C", "c", "a"}

(***************************************************************************)
(* Properties of field extraction (specification SpecFields)               *)
(***************************************************************************)
MaxFieldToks == 3

FieldVocabulary == {"ACC_A", "BANK_X", "LOANT", "LOANW", "STATUS"}

\* texts of account numbers, bank names, loan types and statuses
InitFields == Started(FieldVocabulary, MaxFieldToks, MaxPages)

SpecFields == InitFields /\ [][Next]_vars

\* C11: aggregate_multi_page_data never raises on pages whose text is a
\* string, whichever pattern of a field's list is the first to match
C11_NeverRaises == pc # "raised"

(***************************************************************************)
(* Properties of the page confidence (specification SpecConf)              *)
(***************************************************************************)
\* the pipeline and the normalizer are idle
Idle ==
  /\ pages_data = << >>
  /\ sections = << >>
  /\ all_accounts = << >>
  /\ financial_data = None
  /\ payment_history = None
  /\ enquiry_summary = None
  /\ quality_metrics = None
  /\ processing_metadata = None
  /\ report_summary = None
  /\ raw_text = << >>
  /\ once = << >>
  /\ twice = << >>
  /\ report = << >>
  /\ ProcessorIdle

\* a page of some length with some indicators and account data awaits its
\* confidence
InitConf ==
  /\ \E text_length \in 0..MaxLength : \E indicators \in 0..MaxIndicators :
       \E numbers \in {{}, {"AB12345678"}} : \E banks \in {{}, {"ABC BANK LTD"}} :
         \E loans \in {{}, {"home loan"}} :
           page_inputs = [text_length |-> text_length, indicators |-> indicators,
                          account_data |-> [account_numbers |-> numbers, bank_names |-> banks,
                                            loan_types |-> loans]]
  /\ confidence = 0
  /\ pc = "score_page"
  /\ split_text = << >>
  /\ account_blocks = << >>
  /\ Idle

\* _calculate_page_confidence on the page
ScorePage ==
  /\ pc = "score_page"
  /\ confidence' = CalculatePageConfidence(page_inputs.text_length, page_inputs.indicators,
                                           page_inputs.account_data)
  /\ pc' = "page_scored"
  /\ UNCHANGED <<processor, report, page_inputs, block_splitting, normalizer, pages_data, sections, all_accounts, financial_data,
                 payment_history, enquiry_summary, quality_metrics, processing_metadata,
                 report_summary>>

NextConf == ScorePage

SpecConf == InitConf /\ [][NextConf]_vars

\* the sum of the length score, the indicator boost and the data bonuses
\* of the page, in tenths
ConfidenceSum ==
  LET L == IF page_inputs.text_length > 100 THEN 3
           ELSE IF page_inputs.text_length > 50 THEN 2
           ELSE IF page_inputs.text_length > 10 THEN 1 ELSE 0
      found(list) == IF list # {} THEN 1 ELSE 0
  IN L + Min2(page_inputs.indicators, 4)
       + 2 * found(page_inputs.account_data.account_numbers)
       + found(page_inputs.account_data.bank_names)
       + found(page_inputs.account_data.loan_types)

\* C14: the page confidence lies between 0 and 1 and is the smaller of 1
\* and the sum of the length score (0.3, 0.2, 0.1 or 0), the indicator
\* boost min(0.1 n, 0.4) and the bonuses 0.2, 0.1 and 0.1 for account
\* numbers, bank names and loan types found
C14_PageConfidence ==
  pc = "page_scored" =>
    /\ confidence \in 0..10
    /\ confidence = Min2(10, ConfidenceSum)

\* a page whose sum is 1.1 got the confidence 1
C14_Witness ==
  /\ pc = "page_scored"
  /\ ConfidenceSum = 11
  /\ confidence = 10

(***************************************************************************)
(* Properties of empty pages (specification SpecPages)                     *)
(***************************************************************************)
MaxDocPages == 3
MaxPageToks == 3

PageVocabulary == {"DETAILS", "ACC_A", "PAYHIST", "30", "SCORE742"}

InitPages == Started(PageVocabulary, MaxPageToks, MaxDocPages)

SpecPages == InitPages /\ [][Next]_vars

\* the page numbers of the pages with text, in page order
RECURSIVE PagesWithText(_, _)
PagesWithText(pages, p) ==
  IF p > Len(pages) THEN << >>
  ELSE (IF pages[p].text = << >> THEN << >> ELSE <<p>>) \o PagesWithText(pages, p + 1)

\* the pages with text alone, numbered from 1
WithoutEmptyPages(pages) ==
  LET idx == PagesWithText(pages, 1)
  IN [i \in DOMAIN idx |-> [page_number |-> i, text |-> pages[idx[i]].text]]

\* records with the page numbers the pages have in the whole document
Renumbered(records, idx) ==
  [r \in DOMAIN records |-> [records[r] EXCEPT !.page_number = idx[@]]]

\* C12: a page with empty text gives no section and no account, has page
\* confidence 0 and does not abort the run; the sections, accounts,
\* financial, payment and enquiry results are those of the other pages
\* alone, apart from the page numbers and total_pages_processed
C12_EmptyPageIsNeutral ==
  LET empty == {p \in DOMAIN pages_data : pages_data[p].text = << >>}
      idx == PagesWithText(pages_data, 1)
      others == WithoutEmptyPages(pages_data)
      alone == IdentifySections(others)
  IN /\ (pc = "raised" => ConsolidateRaises(alone, others))
     /\ (pc = "returned" =>
           /\ \A p \in empty :
                /\ PageConfidence(pages_data[p].text) = 0
                /\ \A s \in DOMAIN sections : sections[s].page_number # p
                /\ \A a \in DOMAIN all_accounts : all_accounts[a].page_number # p
           /\ sections = Renumbered(alone, idx)
           /\ all_accounts = Renumbered(ConsolidateAccounts(alone, others), idx)
           /\ financial_data = AggregateFinancialData(alone, others)
           /\ payment_history = ConsolidatePaymentHistory(alone, others)
           /\ enquiry_summary = AggregateEnquiryData(alone, others)
           /\ processing_metadata.total_pages_processed = Len(pages_data))

\* a run returned on three pages, the second without text, with a section
\* and an account of the third page
C12_Witness ==
  /\ pc = "returned"
  /\ Len(pages_data) = 3
  /\ pages_data[1].text # << >>
  /\ pages_data[2].text = << >>
  /\ \E s \in DOMAIN sections : sections[s].page_number = 3
  /\ \E a \in DOMAIN all_accounts : all_accounts[a].page_number = 3

(***************************************************************************)
(* Properties of malformed input (specification SpecInput)                 *)
(***************************************************************************)
MaxInputToks == 2

InputVocabulary == {"ACC_A", "DETAILS", "SCORE742"}

\* what an element of pages_data can be: a page record ("page"), a value
\* that is no mapping, a mapping whose text is no string
ElementKinds == {"page", "not_mapping", "text_not_str"}

\* the document with the elements of other kinds in the places of its pages
Damaged(doc, kinds) ==
  [p \in DOMAIN doc |->
     CASE kinds[p] = "page" -> doc[p]
       [] kinds[p] = "not_mapping" -> [not_mapping |-> None]
       [] kinds[p] = "text_not_str" -> [page_number |-> doc[p].page_number,
                                        text_not_str |-> None]]

\* the call starts on a collection of page records and malformed elements
InitInput ==
  /\ \E k \in 0..MaxInputToks : \E flat \in [1..k -> InputVocabulary] :
       \E p \in 0..MaxPages : \E c \in Cuts(k, p) : \E kinds \in [1..p -> ElementKinds] :
         /\ p = 0 => k = 0
         /\ pages_data = Damaged(PagesOf(flat, c, p), kinds)
  /\ Fresh

SpecInput == InitInput /\ [][Next]_vars

\* the seven top-level parts of an AggregatedCibilData
ReportParts ==
  {"report_summary", "all_accounts", "consolidated_financial_data", "payment_history_summary",
   "enquiry_summary", "data_quality_metrics", "processing_metadata"}

\* some element of pages_data is no page record with a string as text
Malformed ==
  \E p \in DOMAIN pages_data : ~IsMapping(pages_data[p]) \/ ~TextIsString(pages_data[p])

\* C13: on a malformed collection (an element that is no mapping, or whose
\* text is no string) the call raises; a call ends with a report of all
\* seven parts or with an exception, and there is no report before
C13_CompleteOrRaised ==
  /\ Malformed => pc \in {"identify_sections", "raised"}
  /\ pc = "returned" => DOMAIN report = ReportParts
  /\ pc # "returned" => DOMAIN report = {}

\* the call raised on a readable page followed by a malformed element
C13_Witness ==
  /\ pc = "raised"
  /\ Len(pages_data) = 2
  /\ IsMapping(pages_data[1]) /\ TextIsString(pages_data[1])
  /\ pages_data[1].text # << >>
  /\ ~TextIsString(pages_data[2])
  /\ DOMAIN report = {}

(***************************************************************************)
(* Properties of the sections (specification SpecSections)                 *)
(***************************************************************************)
MaxSecToks == 4

SectionVocabulary == {"DETAILS", "CREDITACC", "PAYHIST", "PAD", "PAGE2"}

InitSections == Started(SectionVocabulary, MaxSecToks, MaxPages)

SpecSections == InitSections /\ [][Next]_vars

\* _identify_sections has returned
SectionsDone == pc \notin {"identify_sections", "raised"}

\* the patterns of the type that match somewhere in the text
PatternsMatching(text, type) ==
  {k \in 1..3 : \E i \in DOMAIN text : k \in SECTION_PATTERNS(text[i], type)}

\* the offset of the leftmost match of pattern k of the type in the text
MatchStart(text, type, k) ==
  Off(text, Min({i \in DOMAIN text : k \in SECTION_PATTERNS(text[i], type)}))

\* the types of SectionTypes are four
SectionTypeSet == {SectionTypes[t] : t \in DOMAIN SectionTypes}

\* C16: there is at most one section per page and section type, one for
\* every type with a pattern that matches in the page; it starts at the
\* match of the first pattern of the type's list that matches; the
\* sections are in page order and are at most 4 times the pages
C16_OneSectionPerPageAndType ==
  SectionsDone =>
    /\ \A s, t \in DOMAIN sections :
         (sections[s].page_number = sections[t].page_number
            /\ sections[s].section_type = sections[t].section_type) => s = t
    /\ \A p \in DOMAIN pages_data : \A type \in SectionTypeSet :
         LET found == PatternsMatching(pages_data[p].text, type)
             here == {s \in DOMAIN sections : sections[s].page_number = p
                                               /\ sections[s].section_type = type}
         IN IF found = {} THEN here = {}
            ELSE /\ here # {}
                 /\ \A s \in here :
                      sections[s].content.lo = MatchStart(pages_data[p].text, type, Min(found))
    /\ \A s, t \in DOMAIN sections : s < t => sections[s].page_number <= sections[t].page_number
    /\ Len(sections) <= 4 * Len(pages_data)

\* the second pattern of account_details matches before the first in a
\* page, and the section starts at the match of the first
C16_Witness ==
  /\ SectionsDone
  /\ \E s \in DOMAIN sections :
       LET text == pages_data[sections[s].page_number].text
       IN /\ sections[s].section_type = "account_details"
          /\ PatternsMatching(text, "account_details") = {1, 2}
          /\ MatchStart(text, "account_details", 2) < MatchStart(text, "account_details", 1)
          /\ sections[s].content.lo = MatchStart(text, "account_details", 1)

\* the offsets at or after 100 characters past the start where a section
\* keyword (e = 1) or a page or end of report marker (e = 2) begins
EndsFrom(text, start, e) ==
  {q \in UNION {{Off(text, j) + o : o \in section_end_patterns(text[j], e)} : j \in DOMAIN text} :
     q >= start + 100}

\* the start of the content of a section in the text of its page
SectionStart(section) ==
  MatchStart(pages_data[section.page_number].text, section.section_type,
             Min(PatternsMatching(pages_data[section.page_number].text, section.section_type)))

\* C17 as stated: the content runs from the match start to the first
\* section keyword found from 100 characters past the start, or to the end
\* of the page text when there is none; nothing else ends it
C17_KeywordOrEndOfText ==
  SectionsDone =>
    \A s \in DOMAIN sections :
      LET text == pages_data[sections[s].page_number].text
          start == SectionStart(sections[s])
          keywords == EndsFrom(text, start, 1)
      IN sections[s].content =
           Strip(text, start, IF keywords # {} THEN Min(keywords) ELSE TextLen(text))

\* C17 amended: when no section keyword is found from 100 characters past
\* the start, the content ends at the first page or end of report marker
\* found from there, and at the end of the page text when there is none
C17_KeywordMarkerOrEndOfText ==
  SectionsDone =>
    \A s \in DOMAIN sections :
      LET text == pages_data[sections[s].page_number].text
          start == SectionStart(sections[s])
          keywords == EndsFrom(text, start, 1)
          markers == EndsFrom(text, start, 2)
      IN sections[s].content =
           Strip(text, start, IF keywords # {} THEN Min(keywords)
                              ELSE IF markers # {} THEN Min(markers)
                              ELSE TextLen(text))

\* a section ended by a page marker that has text after it
C17_Witness ==
  /\ SectionsDone
  /\ \E s \in DOMAIN sections :
       LET text == pages_data[sections[s].page_number].text
           start == SectionStart(sections[s])
       IN /\ EndsFrom(text, start, 1) = {}
          /\ EndsFrom(text, start, 2) # {}
          /\ sections[s].content.hi < Min(EndsFrom(text, start, 2))
          /\ Min(EndsFrom(text, start, 2)) < TextLen(text)

(***************************************************************************)
(* Properties of the account blocks (specification SpecBlocks)             *)
(***************************************************************************)
MaxBlockToks == 5

BlockVocabulary == {"ACC_A", "ACC_B", "BANK_X", "NL"}

\* a text awaits its split into account blocks
InitBlocks ==
  /\ \E k \in 0..MaxBlockToks : split_text \in [1..k -> BlockVocabulary]
  /\ account_blocks = << >>
  /\ pc = "split"
  /\ page_inputs = << >>
  /\ confidence = 0
  /\ Idle

\* _split_into_account_blocks on the text
SplitText ==
  /\ pc = "split"
  /\ account_blocks' = SplitIntoAccountBlocks(split_text)
  /\ pc' = "split_done"
  /\ UNCHANGED <<processor, split_text, report, page_scoring, normalizer, pages_data, sections,
                 all_accounts, financial_data, payment_history, enquiry_summary,
                 quality_metrics, processing_metadata, report_summary>>

NextBlocks == SplitText

SpecBlocks == InitBlocks /\ [][NextBlocks]_vars

\* the lines of the blocks, block after block
RECURSIVE LinesOfBlocks(_, _)
LinesOfBlocks(bs, b) ==
  IF b > Len(bs) THEN << >> ELSE SplitLines(bs[b]) \o LinesOfBlocks(bs, b + 1)

\* the lines that are not blank
NonBlank(lines) == SelectSeq(lines, LAMBDA line : line # << >>)

\* the number of blocks the separator lines of the text start: one for
\* the text before the first separator line that has text before it, one
\* for every such separator line
BlocksStarted(lines) ==
  LET filled == {i \in DOMAIN lines : lines[i] # << >>}
  IN IF filled = {} THEN 0
     ELSE 1 + Cardinality({i \in DOMAIN lines : i > Min(filled) /\ IsSeparatorLine(lines[i])})

\* every separator line starts a block and every later block begins with one
SeparatorsStartBlocks ==
  /\ Len(account_blocks) = BlocksStarted(SplitLines(split_text))
  /\ \A b \in DOMAIN account_blocks :
       LET lines == SplitLines(account_blocks[b])
       IN /\ b > 1 => IsSeparatorLine(lines[1])
          /\ \A i \in DOMAIN lines : i > 1 => ~IsSeparatorLine(lines[i])

\* C18 as stated: with two or more blocks, every separator line starts a
\* block, the blocks hold every line of the text once and in order, and
\* every block after the first begins with a separator line; with fewer
\* the only block is the whole text
C18_BlocksKeepEveryLine ==
  pc = "split_done" =>
    IF BlocksStarted(SplitLines(split_text)) >= 2
    THEN /\ SeparatorsStartBlocks
         /\ LinesOfBlocks(account_blocks, 1) = SplitLines(split_text)
    ELSE account_blocks = <<split_text>>

\* C18 amended: the blocks hold every line of the text that is not blank
\* once and in order; the blank lines at the start and the end of a block
\* are dropped
C18_BlocksKeepNonBlankLines ==
  pc = "split_done" =>
    IF BlocksStarted(SplitLines(split_text)) >= 2
    THEN /\ SeparatorsStartBlocks
         /\ NonBlank(LinesOfBlocks(account_blocks, 1)) = NonBlank(SplitLines(split_text))
         /\ \A b \in DOMAIN account_blocks :
              LET lines == SplitLines(account_blocks[b])
              IN lines[1] # << >> /\ lines[Len(lines)] # << >>
    ELSE account_blocks = <<split_text>>

\* two blocks of a text with a blank line before the second separator line
C18_Witness ==
  /\ pc = "split_done"
  /\ Len(account_blocks) = 2
  /\ \E i \in DOMAIN split_text :
       /\ i > 1 /\ i < Len(split_text)
       /\ split_text[i] = "NL" /\ split_text[i + 1] = "NL"

(***************************************************************************)
(* Properties of the payment history of an account (specification          *)
(* SpecHistory)                                                            *)
(***************************************************************************)
MaxHistToks == 5

HistoryVocabulary == {"PAYHIST", "ACC_A", "HIST25"}

TokenVocabulary == {"PAYHIST", "ACC_A", "30", "XXX"}

\* two payment history sections with the account number, each with a token
TwoHistories ==
  <<[page_number |-> 1, text |-> <<"PAYHIST", "ACC_A", "30">>],
    [page_number |-> 2, text |-> <<"PAYHIST", "ACC_A", "XXX">>]>>

\* texts with the long history, texts with single tokens, or the two
\* sections with a token each
InitHistory ==
  \/ Started(HistoryVocabulary, MaxHistToks, MaxPages)
  \/ Started(TokenVocabulary, MaxToks, MaxPages)
  \/ pages_data = TwoHistories /\ Fresh

SpecHistory == InitHistory /\ [][Next]_vars

\* the payment_history sections, in section order
PaymentSections == SelectSeq(sections, LAMBDA s : s.section_type = "payment_history")

\* the window around the account number in the content of a section
WindowIn(section, number) ==
  FindTextAroundAccount(pages_data[section.page_number].text, section.content.lo,
                        section.content.hi, number)

\* the delinquency tokens of the window, in their order of appearance
TokensOfWindow(section, number) ==
  LET window == WindowIn(section, number)
  IN IF window.found
     THEN FindPayments(pages_data[section.page_number].text, window.lo, window.hi, 1)
     ELSE << >>

\* the first n entries of a sequence, all of them when it has fewer
FirstUpTo(seq, n) == SubSeq(seq, 1, Min2(n, Len(seq)))

\* C19: the payment_history of every account has at most 24 entries, all
\* of them delinquency tokens, and they are the first (up to 24) tokens of
\* the window around the account number in a payment_history section, in
\* their order of appearance
C19_FirstTwentyFourTokens ==
  AccountsDone =>
    \A a \in DOMAIN all_accounts :
      LET history == all_accounts[a].payment_history
      IN /\ Len(history) <= 24
         /\ \A i \in DOMAIN history : history[i] \in PaymentTokens
         /\ \/ history = << >>
            \/ \E s \in DOMAIN PaymentSections :
                 history = FirstUpTo(TokensOfWindow(PaymentSections[s],
                                                    all_accounts[a].account_number), 24)

\* an account whose window holds more than 24 tokens
C19_Witness ==
  /\ AccountsDone
  /\ \E a \in DOMAIN all_accounts :
       /\ Len(all_accounts[a].payment_history) = 24
       /\ \E s \in DOMAIN PaymentSections :
            Len(TokensOfWindow(PaymentSections[s], all_accounts[a].account_number)) > 24

\* the payment_history sections whose content holds the account number
SectionsHolding(number) ==
  {s \in DOMAIN PaymentSections : WindowIn(PaymentSections[s], number).found}

\* the payment_history sections whose window around the account number
\* holds a delinquency token
SectionsGiving(number) ==
  {s \in DOMAIN PaymentSections : TokensOfWindow(PaymentSections[s], number) # << >>}

\* C20 as stated: the payment_history of an account is taken from the first
\* payment_history section whose content holds the account number, and no
\* later section gives or replaces it, even when the window of that section
\* holds no token
C20_FirstHoldingSectionWins ==
  AccountsDone =>
    \A a \in DOMAIN all_accounts :
      LET number == all_accounts[a].account_number
      IN SectionsHolding(number) # {} =>
           all_accounts[a].payment_history =
             FirstUpTo(TokensOfWindow(PaymentSections[Min(SectionsHolding(number))], number), 24)

\* C20 amended: the payment_history of an account is taken from the first
\* payment_history section whose window around the account number holds a
\* token; the sections before it that hold the number and no token are
\* passed over, no later section gives or replaces it, and it is empty
\* when no section has such a window
C20_FirstGivingSectionWins ==
  AccountsDone =>
    \A a \in DOMAIN all_accounts :
      LET number == all_accounts[a].account_number
      IN all_accounts[a].payment_history =
           IF SectionsGiving(number) = {} THEN << >>
           ELSE FirstUpTo(TokensOfWindow(PaymentSections[Min(SectionsGiving(number))], number), 24)

\* an account whose first section with its number has no token in the
\* window, with the tokens of a later section as its payment_history
C20_Witness ==
  /\ AccountsDone
  /\ \E a \in DOMAIN all_accounts :
       LET number == all_accounts[a].account_number
       IN /\ SectionsGiving(number) # {}
          /\ Min(SectionsHolding(number)) < Min(SectionsGiving(number))
          /\ all_accounts[a].payment_history # << >>

(***************************************************************************)
(* Properties of the dates of an account (specification SpecDates)         *)
(***************************************************************************)
MaxDateToks == 4

DateVocabulary == {"ACC_A", "OPENED", "SINCE", "LASTPAID"}

\* an opening date more than 500 characters before the account number and
\* a last payment date right after it
FarDate ==
  <<[page_number |-> 1,
     text |-> <<"OPENED", "PAD", "PAD", "PAD", "PAD", "PAD", "ACC_A", "LASTPAID">>]>>

InitDates ==
  \/ Started(DateVocabulary, MaxDateToks, MaxPages)
  \/ pages_data = FarDate /\ Fresh

SpecDates == InitDates /\ [][Next]_vars

\* the pages whose text holds the account number
PagesHolding(number) ==
  {p \in DOMAIN pages_data : \E j \in DOMAIN pages_data[p].text :
                               NumberIn(pages_data[p].text[j]) = number}

\* the offset of the first occurrence of the account number in a text
FirstOccurrence(text, number) ==
  Min({Off(text, j) + NumberOffset : j \in {i \in DOMAIN text : NumberIn(text[i]) = number}})

\* the date of a field that the window text[lo:hi] gives: that of the
\* leftmost match of the first pattern of the catalog that matches in it
DateOfWindow(text, lo, hi, which) ==
  LET In(j) == DateInPhrase(text[j], Max2(0, lo - Off(text, j)),
                            Min2(LitLen(text[j]), hi - Off(text, j)), which)
      first == {j \in DOMAIN text : In(j) # None /\ DatePattern(text[j], which) = 1}
      second == {j \in DOMAIN text : In(j) # None /\ DatePattern(text[j], which) = 2}
  IN IF first # {} THEN In(Min(first))
     ELSE IF second # {} THEN In(Min(second))
     ELSE None

\* C21: the dates of an account are those of the window from 500
\* characters before the first occurrence of its number to 500 characters
\* after its end, clipped to the text, in the first page that holds the
\* number, the first pattern of a catalog that matches giving the date; an
\* account whose number is in no page has no dates
C21_DatesOfFirstPage ==
  AccountsDone =>
    \A a \in DOMAIN all_accounts :
      LET number == all_accounts[a].account_number
          holding == PagesHolding(number)
      IN IF holding = {}
         THEN all_accounts[a].opening_date = None /\ all_accounts[a].last_payment_date = None
         ELSE LET text == pages_data[Min(holding)].text
                  at == FirstOccurrence(text, number)
                  lo == Max2(0, at - 500)
                  hi == Min2(TextLen(text), at + NumberLen + 500)
              IN /\ all_accounts[a].opening_date = DateOfWindow(text, lo, hi, 1)
                 /\ all_accounts[a].last_payment_date = DateOfWindow(text, lo, hi, 2)

\* an account whose window holds a match of the second opening pattern
\* before a match of the first, with the date of the first
C21_Witness ==
  /\ AccountsDone
  /\ \E a \in DOMAIN all_accounts : \E p \in DOMAIN pages_data :
       \E i, j \in DOMAIN pages_data[p].text :
         /\ p = Min(PagesHolding(all_accounts[a].account_number))
         /\ i < j
         /\ pages_data[p].text[i] = "SINCE"
         /\ pages_data[p].text[j] = "OPENED"
         /\ all_accounts[a].opening_date = "11/12/1999"

\* the record with the fields of the enrichment step as extraction leaves them
BeforeEnrichment(a) ==
  [a EXCEPT !.opening_date = None, !.last_payment_date = None, !.payment_history = << >>]

\* C22: the enrichment step changes only opening_date, last_payment_date
\* and payment_history of a record, all other fields are as extracted; once
\* _consolidate_accounts has returned no step changes all_accounts
C22_OnlyEnrichmentChangesAccounts ==
  /\ [](AccountsDone =>
          \A i \in DOMAIN all_accounts :
            BeforeEnrichment(all_accounts[i]) =
              ExtractedRecords[FirstSighting(ExtractedRecords, all_accounts[i].account_number)])
  /\ [][AccountsDone => all_accounts' = all_accounts]_vars

\* a returned run with an account that the enrichment step gave a date
C22_Witness ==
  /\ pc = "returned"
  /\ \E i \in DOMAIN all_accounts :
       /\ all_accounts[i].opening_date # None
       /\ BeforeEnrichment(all_accounts[i]) # all_accounts[i]

\* C23: when there is a payment_history section the tokens counted are
\* those of the payment_history sections; the tokens of the page texts
\* outside the sections are counted only when there is no such section
C23_SectionsOnlyWhenPresent ==
  PaymentDone =>
    (PaymentSections # << >> =>
       payment_history.delay_categories =
         AnalyzePayments([total_delay_instances |-> 0,
                          delay_categories |-> [b \in DelayBuckets |-> 0]],
                         SectionPayments(pages_data, PaymentSections, 1), 1).delay_categories)

(***************************************************************************)
(* Properties of the enquiry summary (specification SpecEnquiry)           *)
(***************************************************************************)
MaxEnqToks == 4

EnquiryVocabulary == {"ENQSEC", "ENQ5", "ENQ7", "BANK_X"}

InitEnquiry == Started(EnquiryVocabulary, MaxEnqToks, MaxPages)

SpecEnquiry == InitEnquiry /\ [][Next]_vars

\* _aggregate_enquiry_data has returned
EnquiryDone ==
  pc \in {"calculate_aggregation_quality", "create_processing_metadata",
          "generate_report_summary", "returned"}

\* the enquiry_summary sections, in section order
EnquirySections == SelectSeq(sections, LAMBDA s : s.section_type = "enquiry_summary")

\* the count that the enquiries_count patterns, tried in their order, match
\* in the content of a section, NoneInt when none matches
CountOfSection(section) ==
  LET toks == PhrasesIn(pages_data[section.page_number].text, section.content.lo,
                        section.content.hi)
      first == {j \in DOMAIN toks : toks[j] = "ENQ5"}
      second == {j \in DOMAIN toks : toks[j] = "ENQ7"}
  IN IF first # {} THEN 5 ELSE IF second # {} THEN 7 ELSE NoneInt

\* the enquiry_summary sections with a count
SectionsCounting ==
  {s \in DOMAIN EnquirySections : CountOfSection(EnquirySections[s]) # NoneInt}

\* C24: total_enquiries is the count of the first enquiry_summary section
\* that has a match of a pattern of the enquiries_count list; a later
\* section does not replace it; it is 0 when no section has a match
C24_FirstSectionCountWins ==
  EnquiryDone =>
    enquiry_summary.total_enquiries =
      IF SectionsCounting = {} THEN 0
      ELSE CountOfSection(EnquirySections[Min(SectionsCounting)])

(***************************************************************************)
(* Properties of the quality metrics (specification SpecFin)               *)
(***************************************************************************)
\* _calculate_aggregation_quality has returned
QualityDone == pc \in {"create_processing_metadata", "generate_report_summary", "returned"}

\* the ratio is the fraction num / den
IsFraction(ratio, num, den) == ratio.den > 0 /\ den > 0 /\ ratio.num * den = num * ratio.den

\* how many of: a credit score is present, there is a consolidated account,
\* the count of accounts of the document is present (not at its default 0)
DataPointsPresent ==
  Cardinality({point \in {"cibil_score", "accounts", "total_accounts"} :
     \/ point = "cibil_score" /\ financial_data.cibil_score # NoneInt
     \/ point = "accounts" /\ Len(all_accounts) >= 1
     \/ point = "total_accounts" /\ financial_data.total_accounts # 0})

\* the consolidated accounts with account number, bank name and loan type
CompleteAccounts ==
  Cardinality({i \in DOMAIN all_accounts : /\ all_accounts[i].account_number # ""
                                           /\ all_accounts[i].bank_name # ""
                                           /\ all_accounts[i].loan_type # ""})

\* C25: aggregation_completeness is k/3 for the k of the three data points
\* that are present, account_consolidation_quality is the fraction of the
\* consolidated accounts that are complete (0 without accounts), and
\* overall_aggregation_quality is 0.4 of the first plus 0.6 of the second
C25_QualityFormulas ==
  QualityDone =>
    LET n == Max2(Len(all_accounts), 1)
    IN /\ IsFraction(quality_metrics.aggregation_completeness, DataPointsPresent, 3)
       /\ IsFraction(quality_metrics.account_consolidation_quality, CompleteAccounts, n)
       /\ IsFraction(quality_metrics.overall_aggregation_quality,
                     4 * DataPointsPresent * n + 6 * CompleteAccounts * 3, 10 * 3 * n)

\* two consolidated accounts, one of them complete, and a credit score: the
\* completeness is 2/3, the consolidation quality 1/2
C25_Witness ==
  /\ QualityDone
  /\ DataPointsPresent = 2
  /\ financial_data.cibil_score # NoneInt
  /\ Len(all_accounts) = 2
  /\ CompleteAccounts = 1

(***************************************************************************)
(* Properties of the report summary (specification SpecSummary)            *)
(***************************************************************************)
MaxSumToks == 4

SummaryVocabulary == {"ACC_A", "ACC_B", "STATUS", "CLOSED", "TOTAL3"}

\* a page of three accounts (settled, closed, without status) and the count
\* of two accounts, and a page of a credit score and two late payments
ThreeAccounts ==
  <<[page_number |-> 1,
     text |-> <<"ACC_A", "SETTLED", "NL", "ACC_B", "CLOSED", "NL", "ACC_FULL", "TOTAL2">>],
    [page_number |-> 2,
     text |-> <<"SCORE742", "PAYHIST", "30", "60">>]>>

\* texts of accounts, statuses and a count of accounts
InitSummary ==
  \/ Started(SummaryVocabulary, MaxSumToks, MaxPages)
  \/ pages_data = ThreeAccounts /\ Fresh

SpecSummary == InitSummary /\ [][Next]_vars

\* round(100 * n / d), d positive: to the nearest integer, halves to even
Round100(n, d) ==
  LET q == (100 * n) \div d
      r == (100 * n) % d
  IN IF 2 * r < d THEN q
     ELSE IF 2 * r > d THEN q + 1
     ELSE IF q % 2 = 0 THEN q ELSE q + 1

\* C26: data_completeness_percentage is
\* round(100 * total_accounts / max(len(all_accounts), 1)) in every report,
\* also when there is no consolidated account
C26_RoundedCompleteness ==
  pc = "returned" =>
    report_summary.data_completeness_percentage
      = Round100(financial_data.total_accounts, Max2(Len(all_accounts), 1))

\* C26, amended: data_completeness_percentage is 0 when there is no
\* consolidated account, and otherwise 100 * total_accounts / len(all_accounts)
\* with its fraction cut off (int, not round)
C26_TruncatedCompleteness ==
  pc = "returned" =>
    report_summary.data_completeness_percentage
      = IF Len(all_accounts) = 0 THEN 0
        ELSE (100 * financial_data.total_accounts) \div Len(all_accounts)

\* a report of three accounts with the count 2: 66, where rounding gives 67
C26_Witness ==
  /\ pc = "returned"
  /\ Len(all_accounts) = 3
  /\ financial_data.total_accounts = 2
  /\ report_summary.data_completeness_percentage = 66

\* the sum of the three counts by status of the summary
StatusSum(summary) ==
  summary.total_active_accounts + summary.total_closed_accounts
    + summary.total_settled_accounts

\* the words among active, closed and settled that the account counts under
StatusesOf(account) ==
  {word \in {"active", "closed", "settled"} : StatusHolds(account.account_status, word)}

\* C30: in the report returned the summary agrees with its parts:
\* total_accounts is the length of all_accounts, cibil_score and
\* payment_delay_instances are those of the financial data and of the payment
\* summary, every account counts under at most one of the three statuses,
\* and the three counts together are at most total_accounts
C30_SummaryAgreesWithParts ==
  pc = "returned" =>
    LET summary == report.report_summary
    IN /\ summary.total_accounts = Len(report.all_accounts)
       /\ summary.cibil_score = report.consolidated_financial_data.cibil_score
       /\ summary.payment_delay_instances
            = report.payment_history_summary.total_delay_instances
       /\ \A i \in DOMAIN report.all_accounts :
            Cardinality(StatusesOf(report.all_accounts[i])) <= 1
       /\ StatusSum(summary) <= summary.total_accounts

\* a report of three accounts, one settled, one closed, one without status,
\* with a credit score and two late payments
C30_Witness ==
  /\ pc = "returned"
  /\ report.report_summary.cibil_score = 742
  /\ report.report_summary.payment_delay_instances = 2
  /\ report.report_summary.total_accounts = 3
  /\ report.report_summary.total_settled_accounts = 1
  /\ report.report_summary.total_closed_accounts = 1
  /\ StatusSum(report.report_summary) = 2

(***************************************************************************)
(* Properties of the page numbers (specification SpecNumbers)              *)
(***************************************************************************)
MaxNumToks == 3

NumberVocabulary == {"DETAILS", "ACC_A", "ACC_B", "PAYHIST"}

\* values of the page_number field of the page records given to the call
PageNumberValues == {2, 9}

\* the pages with the page_number fields given
Numbered(pages, numbers) ==
  [i \in DOMAIN pages |-> [pages[i] EXCEPT !.page_number = numbers[i]]]

\* the call starts on page records whose page_number fields are no positions
InitNumbers ==
  /\ \E k \in 0..MaxNumToks : \E flat \in [1..k -> NumberVocabulary] :
       \E p \in 0..MaxPages : \E c \in Cuts(k, p) : \E numbers \in [1..p -> PageNumberValues] :
         /\ p = 0 => k = 0
         /\ pages_data = Numbered(PagesOf(flat, c, p), numbers)
  /\ Fresh

SpecNumbers == InitNumbers /\ [][Next]_vars

\* the sections that carry the page number n, in their order
SectionsNumbered(n) == SelectSeq(sections, LAMBDA s : s.page_number = n)

\* the account number is written in the text of the page at the position
WrittenAt(number, position) ==
  \E j \in DOMAIN pages_data[position].text : NumberIn(pages_data[position].text[j]) = number

\* C29: the page_number of every section and of every account is one plus
\* the position of its page in the input, whatever the page_number field of
\* the page record, and the page numbers along all_accounts never decrease
C29_PageNumberIsPosition ==
  /\ SectionsDone =>
       /\ \A s \in DOMAIN sections : sections[s].page_number \in DOMAIN pages_data
       /\ \A n \in DOMAIN pages_data :
            SectionsNumbered(n) = SectionsOfPage(pages_data[n].text, n, 1)
  /\ AccountsDone =>
       /\ \A i \in DOMAIN all_accounts :
            /\ all_accounts[i].page_number \in DOMAIN pages_data
            /\ WrittenAt(all_accounts[i].account_number, all_accounts[i].page_number)
       /\ \A i, j \in DOMAIN all_accounts :
            i < j => all_accounts[i].page_number <= all_accounts[j].page_number

\* a report with a section and an account of the first page, whose record
\* has another page_number, and an account of the second page
C29_Witness ==
  /\ pc = "returned"
  /\ Len(pages_data) = 2
  /\ pages_data[1].page_number # 1
  /\ \E s \in DOMAIN sections : sections[s].page_number = 1
  /\ Len(all_accounts) = 2
  /\ all_accounts[1].page_number = 1
  /\ all_accounts[2].page_number = 2

(***************************************************************************)
(* process_cibil_pdf: the pages are read and normalized, the aggregator    *)
(* runs inside _aggregate_multi_page_data, and the extraction quality is   *)
(* computed from what that method returns (specification SpecProcessor).   *)
(* _analyze_report_structure, _serialize_page_data and                     *)
(* _generate_processing_recommendations read the pages and change nothing. *)
(***************************************************************************)
MaxProcToks == 3

ProcessorVocabulary == {"ACC_A", "ACC_B", "DETAILS", "NL", "LOANW"}

\* _preprocess_cibil_text that leaves the line breaks in the text
PreprocessedPageKeepsLines(text) == text

\* _preprocess_cibil_text on a text of phrases: re.sub(r'\s+', ' ', text)
\* takes the line breaks out, the other substitutions change the case of
\* letters alone (Account to account, Credit to credit)
PreprocessedPage(text) == SelectSeq(text, LAMBDA tok : tok # "NL")

\* the keys of the dictionary _aggregate_multi_page_data makes of the report
\* of the aggregator
EnhancedKeys ==
  {"report_summary", "all_accounts", "consolidated_financial_data", "payment_history_summary",
   "enquiry_summary", "data_quality_metrics", "processing_metadata", "all_account_numbers",
   "all_bank_names", "all_loan_types", "all_cibil_scores", "consolidated_accounts",
   "financial_summary"}

\* the keys of the dictionary of _basic_aggregate_multi_page_data
BasicKeys ==
  {"all_account_numbers", "all_bank_names", "all_loan_types", "all_amounts", "all_cibil_scores",
   "all_dates", "consolidated_accounts", "financial_summary"}

\* the keys _calculate_extraction_quality reads with aggregated_data[key]
QualityKeys == {"all_cibil_scores", "all_account_numbers", "all_bank_names", "all_amounts"}

\* the keys of the two dictionaries process_cibil_pdf returns
SuccessKeys ==
  {"success", "report_type", "processing_method", "pages_data", "report_structure",
   "aggregated_data", "extraction_quality", "recommendations"}

FailureKeys == {"success", "error", "processing_method"}

\* the dictionary of the except branch of process_cibil_pdf
Failure(error) == [success |-> FALSE, keys |-> FailureKeys, error |-> error]

\* a file of at most MaxProcToks phrases on at most MaxPages pages, or a file
\* the PdfReader or a page's extract_text raises on
InitProcessor ==
  /\ \/ \E k \in 0..MaxProcToks : \E flat \in [1..k -> ProcessorVocabulary] :
          \E p \in 0..MaxPages : \E c \in Cuts(k, p) :
            /\ p = 0 => k = 0
            /\ reader = [readable |-> TRUE,
                         pages |-> [i \in 1..p |-> PagesOf(flat, c, p)[i].text]]
     \/ reader = [readable |-> FALSE, pages |-> << >>]
  /\ pc = "extract_pages"
  /\ pages_data = << >>
  /\ sections = << >>
  /\ all_accounts = << >>
  /\ financial_data = None
  /\ payment_history = None
  /\ enquiry_summary = None
  /\ quality_metrics = None
  /\ processing_metadata = None
  /\ report_summary = None
  /\ raw_text = << >>
  /\ once = << >>
  /\ twice = << >>
  /\ page_inputs = << >>
  /\ confidence = 0
  /\ report = << >>
  /\ split_text = << >>
  /\ account_blocks = << >>
  /\ aggregated_data = [keys |-> {}, enhanced |-> FALSE]
  /\ result = [success |-> FALSE, keys |-> {}, error |-> None]

\* _extract_pages_optimized: every page text goes through
\* _preprocess_cibil_text; an exception of the reader ends process_cibil_pdf
\* in its except branch
ExtractPagesOptimized ==
  /\ pc = "extract_pages"
  /\ IF reader.readable
     THEN /\ pages_data' = [i \in DOMAIN reader.pages |->
                              [page_number |-> i, text |-> PreprocessedPage(reader.pages[i])]]
          /\ pc' = "identify_sections"
          /\ UNCHANGED result
     ELSE /\ result' = Failure("read")
          /\ pc' = "processed"
          /\ UNCHANGED pages_data
  /\ UNCHANGED <<reader, aggregated_data, report, normalizer, page_scoring, block_splitting,
                 sections, all_accounts, financial_data, payment_history, enquiry_summary,
                 quality_metrics, processing_metadata, report_summary>>

\* _aggregate_multi_page_data returns: the dictionary made of the report of
\* the aggregator, or that of the basic aggregation when the aggregator raised
AggregateMultiPageData ==
  /\ pc \in {"returned", "raised"}
  /\ aggregated_data' = IF pc = "returned" THEN [keys |-> EnhancedKeys, enhanced |-> TRUE]
                        ELSE [keys |-> BasicKeys, enhanced |-> FALSE]
  /\ pc' = "calculate_extraction_quality"
  /\ UNCHANGED <<reader, result, report, normalizer, page_scoring, block_splitting, pages_data,
                 sections, all_accounts, financial_data, payment_history, enquiry_summary,
                 quality_metrics, processing_metadata, report_summary>>

\* _calculate_extraction_quality and the return of process_cibil_pdf: reading
\* a key the dictionary has not raises KeyError, which the except branch
\* of process_cibil_pdf turns into the failure dictionary
CalculateExtractionQuality ==
  /\ pc = "calculate_extraction_quality"
  /\ result' = IF QualityKeys \subseteq aggregated_data.keys
               THEN [success |-> TRUE, keys |-> SuccessKeys, error |-> None]
               ELSE Failure("KeyError")
  /\ pc' = "processed"
  /\ UNCHANGED <<reader, aggregated_data, report, normalizer, page_scoring, block_splitting,
                 pages_data, sections, all_accounts, financial_data, payment_history,
                 enquiry_summary, quality_metrics, processing_metadata, report_summary>>

NextProcessor ==
  \/ ExtractPagesOptimized
  \/ Next
  \/ AggregateMultiPageData
  \/ CalculateExtractionQuality

SpecProcessor == InitProcessor /\ [][NextProcessor]_vars

\* C27: when the pages are read and the aggregator returns normally,
\* process_cibil_pdf returns success = True with aggregated_data and
\* extraction_quality; it returns success = False only when reading fails
C27_SuccessWhenAggregated ==
  pc = "processed" =>
    /\ (reader.readable /\ aggregated_data.enhanced) =>
         /\ result.success
         /\ {"aggregated_data", "extraction_quality"} \subseteq result.keys
    /\ ~result.success => ~reader.readable


\* the pages are read and normalized
PagesExtracted == reader.readable /\ pc # "extract_pages"

\* the blocks _split_into_account_blocks makes of the content of a section
BlocksOfSection(section) ==
  SplitIntoAccountBlocks(PhrasesIn(pages_data[section.page_number].text,
                                   section.content.lo, section.content.hi))

\* C28: in the full pipeline no normalized page text holds a line break, so
\* _split_into_account_blocks gives one block for every section and every
\* page, every account_details section and every page gives at most one
\* account record, and all_accounts has at most as many accounts as there
\* are pages
C28_OneBlockPerText ==
  PagesExtracted =>
    /\ \A p \in DOMAIN pages_data :
         /\ \A j \in DOMAIN pages_data[p].text : pages_data[p].text[j] # "NL"
         /\ Len(SplitIntoAccountBlocks(pages_data[p].text)) = 1
         /\ Len(ExtractAccountsFromText(pages_data[p].text, p).accounts) <= 1
    /\ \A s \in DOMAIN sections :
         /\ Len(BlocksOfSection(sections[s])) = 1
         /\ sections[s].section_type = "account_details" =>
              Len(ExtractAccountsFromSection(pages_data, sections[s]).accounts) <= 1
    /\ Len(all_accounts) <= Len(pages_data)

\* a file whose one page has two account numbers on two lines: the
\* aggregator returns one account
C28_Witness ==
  /\ PagesExtracted
  /\ aggregated_data.enhanced
  /\ Len(reader.pages) = 1
  /\ \E i, j, k \in DOMAIN reader.pages[1] :
       /\ i < j /\ j < k
       /\ reader.pages[1][i] = "ACC_A"
       /\ reader.pages[1][j] = "NL"
       /\ reader.pages[1][k] = "ACC_B"
  /\ Len(all_accounts) = 1

====
